---- MODULE Spec2Model ----
(***************************************************************************)
(* A model of the SaaS opportunity bot: the keyword matcher of the two     *)
(* scrapers, the scorer, the agent's intent parser and run_scan.           *)
(*                                                                         *)
(* Python strings are sequences of one-character strings, so that          *)
(* lower(), substring search, split() and int() are computed and not       *)
(* assumed.  Python's None is the value None below.  A call that raises is *)
(* the record [raised |-> TRUE, error |-> ...]; a call that returns is     *)
(* [raised |-> FALSE, value |-> ...].                                      *)
(***************************************************************************)
EXTENDS Integers, Sequences, FiniteSets, TLC

VARIABLES
  text,              \* matcher: the text handed to the keyword matcher
  hn_signal,         \* matcher: outcome of hn_scraper.contains_pain_signal(text)
  hn_industry,       \* matcher: outcome of hn_scraper.identify_industry(text)
  reddit_signal,     \* matcher: outcome of reddit_scraper.contains_pain_signal(text)
  reddit_industry,   \* matcher: outcome of reddit_scraper.identify_industry(text)
  opp,               \* scorer: the opportunity record being scored
  cli_score,         \* scorer: outcome of main.score_opportunity(opp)
  agent_score,       \* scorer: outcome of saas_agent.score_opportunity(opp)
  query,             \* intent parser: the user's query
  intent,            \* intent parser: outcome of parse_user_intent(query)
  feed,              \* run_scan: the records scan_hacker_news() will yield, in order
  industry_filter,   \* run_scan: its industry_filter argument
  limit,             \* run_scan: its limit argument
  pulled,            \* run_scan: how many records have been pulled from the generator
  opportunities,     \* run_scan: the local list opportunities
  scan_pc,           \* run_scan: "loop" (in the for loop), "sort" (left it), "done"
  scan_result,       \* run_scan: the returned list
  hn_world,          \* scan_hacker_news: what the Hacker News API answers
  hn_pc,             \* scan_hacker_news: "start", "stories" (in the for loop), "done", "raised"
  story_ids,         \* scan_hacker_news: the story ids the for loop has not reached yet
  hn_fetched,        \* scan_hacker_news: the item ids handed to get_item, in order
  hn_returned,       \* scan_hacker_news: the comments get_comments returned, in order
  hn_yielded,        \* scan_hacker_news: the records yielded, in order
  hn_error,          \* scan_hacker_news: the exception that left the generator
  reddit_world,      \* scan_reddit: what the Reddit API answers
  reddit_pc,         \* scan_reddit: "loop" (in the for loop over SUBREDDITS), "done", "raised"
  subreddit_index,   \* scan_reddit: how many subreddits the for loop has finished
  reddit_yielded,    \* scan_reddit: the records yielded, in order
  reddit_error,      \* scan_reddit: the exception that left the generator
  requests,          \* agent: the requests received, each a session id and a query
  req_pc,            \* agent: where the handler of each request is
  req_intent,        \* agent: what parse_user_intent returned to each handler
  req_scan,          \* agent: what run_scan returned in each handler's worker thread
  completed,         \* agent: the requests whose run_scan has returned, in that order
  scan_cache,        \* agent: the module-level dict scan_cache
  responses,         \* agent: the AgentResponse of each request
  api_key,           \* agent: whether OPENAI_API_KEY is configured
  cli_pc,            \* main: "reddit", "hn", "save", "summary", "done", "crashed"
  all_opportunities, \* main: the local list all_opportunities
  csv_file,          \* main: the rows written to the CSV file
  json_file,         \* main: the records dumped to the JSON file
  printed,           \* main: what has been printed, in order
  cli_error          \* main: the exception that ended the process

matchVars  == <<text, hn_signal, hn_industry, reddit_signal, reddit_industry>>
scoreVars  == <<opp, cli_score, agent_score>>
intentVars == <<query, intent>>
scanVars   == <<feed, industry_filter, limit, pulled, opportunities, scan_pc, scan_result>>
hnVars     == <<hn_world, hn_pc, story_ids, hn_fetched, hn_returned, hn_yielded, hn_error>>
redditVars == <<reddit_world, reddit_pc, subreddit_index, reddit_yielded, reddit_error>>
agentVars  == <<requests, req_pc, req_intent, req_scan, completed, scan_cache, responses, api_key>>
cliVars    == <<cli_pc, all_opportunities, csv_file, json_file, printed, cli_error>>
vars       == <<matchVars, scoreVars, intentVars, scanVars, hnVars, redditVars, agentVars, cliVars>>

(* Python's None.  No string equals it: "<None>" is no character.          *)
None == <<"<None>">>

(* The outcome of a call that has not been made.                           *)
NotRun == [notrun |-> TRUE]

Return(v) == [raised |-> FALSE, value |-> v]
Raise(e)  == [raised |-> TRUE, error |-> e]

(* config.py: PAIN_SIGNALS, the ordered list of signal phrases. *)
PAIN_SIGNALS ==
  << (* I wish there was *) <<"I"," ","w","i","s","h"," ","t","h","e","r","e"," ","w","a","s">>,
     (* I'd pay for *) <<"I","'","d"," ","p","a","y"," ","f","o","r">>,
     (* shut up and take my money *) <<"s","h","u","t"," ","u","p"," ","a","n","d"," ","t","a","k","e"," ","m","y"," ","m","o","n","e","y">>,
     (* is there a tool *) <<"i","s"," ","t","h","e","r","e"," ","a"," ","t","o","o","l">>,
     (* looking for a solution *) <<"l","o","o","k","i","n","g"," ","f","o","r"," ","a"," ","s","o","l","u","t","i","o","n">>,
     (* so frustrating *) <<"s","o"," ","f","r","u","s","t","r","a","t","i","n","g">>,
     (* waste so much time *) <<"w","a","s","t","e"," ","s","o"," ","m","u","c","h"," ","t","i","m","e">>,
     (* hate doing this manually *) <<"h","a","t","e"," ","d","o","i","n","g"," ","t","h","i","s"," ","m","a","n","u","a","l","l","y">>,
     (* anyone know a tool *) <<"a","n","y","o","n","e"," ","k","n","o","w"," ","a"," ","t","o","o","l">>,
     (* willing to pay *) <<"w","i","l","l","i","n","g"," ","t","o"," ","p","a","y">>,
     (* need a better way *) <<"n","e","e","d"," ","a"," ","b","e","t","t","e","r"," ","w","a","y">>,
     (* current solution sucks *) <<"c","u","r","r","e","n","t"," ","s","o","l","u","t","i","o","n"," ","s","u","c","k","s">>,
     (* can't find anything *) <<"c","a","n","'","t"," ","f","i","n","d"," ","a","n","y","t","h","i","n","g">>,
     (* would save me hours *) <<"w","o","u","l","d"," ","s","a","v","e"," ","m","e"," ","h","o","u","r","s">>,
     (* tired of *) <<"t","i","r","e","d"," ","o","f">>,
     (* there has to be a better way *) <<"t","h","e","r","e"," ","h","a","s"," ","t","o"," ","b","e"," ","a"," ","b","e","t","t","e","r"," ","w","a","y">>,
     (* manual process *) <<"m","a","n","u","a","l"," ","p","r","o","c","e","s","s">>,
     (* spreadsheet hell *) <<"s","p","r","e","a","d","s","h","e","e","t"," ","h","e","l","l">>,
     (* pain point *) <<"p","a","i","n"," ","p","o","i","n","t">>,
     (* bottleneck *) <<"b","o","t","t","l","e","n","e","c","k">> >>

(* config.py: INDUSTRIES, a dict in declaration order: name -> keywords. *)
INDUSTRIES ==
  << [name |-> (* finance *) <<"f","i","n","a","n","c","e">>,
      keywords |-> << (* fintech *) <<"f","i","n","t","e","c","h">>,
                      (* banking *) <<"b","a","n","k","i","n","g">>,
                      (* trading *) <<"t","r","a","d","i","n","g">>,
                      (* investment *) <<"i","n","v","e","s","t","m","e","n","t">>,
                      (* accounting *) <<"a","c","c","o","u","n","t","i","n","g">>,
                      (* bookkeeping *) <<"b","o","o","k","k","e","e","p","i","n","g">>,
                      (* tax *) <<"t","a","x">>,
                      (* CFO *) <<"C","F","O">>,
                      (* financial *) <<"f","i","n","a","n","c","i","a","l">> >>],
     [name |-> (* legal *) <<"l","e","g","a","l">>,
      keywords |-> << (* lawyer *) <<"l","a","w","y","e","r">>,
                      (* attorney *) <<"a","t","t","o","r","n","e","y">>,
                      (* law firm *) <<"l","a","w"," ","f","i","r","m">>,
                      (* legal tech *) <<"l","e","g","a","l"," ","t","e","c","h">>,
                      (* contract *) <<"c","o","n","t","r","a","c","t">>,
                      (* compliance *) <<"c","o","m","p","l","i","a","n","c","e">>,
                      (* paralegal *) <<"p","a","r","a","l","e","g","a","l">> >>],
     [name |-> (* healthcare *) <<"h","e","a","l","t","h","c","a","r","e">>,
      keywords |-> << (* medical *) <<"m","e","d","i","c","a","l">>,
                      (* healthcare *) <<"h","e","a","l","t","h","c","a","r","e">>,
                      (* clinic *) <<"c","l","i","n","i","c">>,
                      (* hospital *) <<"h","o","s","p","i","t","a","l">>,
                      (* doctor *) <<"d","o","c","t","o","r">>,
                      (* patient *) <<"p","a","t","i","e","n","t">>,
                      (* HIPAA *) <<"H","I","P","A","A">>,
                      (* telehealth *) <<"t","e","l","e","h","e","a","l","t","h">> >>],
     [name |-> (* real_estate *) <<"r","e","a","l","_","e","s","t","a","t","e">>,
      keywords |-> << (* real estate *) <<"r","e","a","l"," ","e","s","t","a","t","e">>,
                      (* realtor *) <<"r","e","a","l","t","o","r">>,
                      (* property *) <<"p","r","o","p","e","r","t","y">>,
                      (* landlord *) <<"l","a","n","d","l","o","r","d">>,
                      (* rental *) <<"r","e","n","t","a","l">>,
                      (* mortgage *) <<"m","o","r","t","g","a","g","e">>,
                      (* broker *) <<"b","r","o","k","e","r">> >>],
     [name |-> (* saas_b2b *) <<"s","a","a","s","_","b","2","b">>,
      keywords |-> << (* SaaS *) <<"S","a","a","S">>,
                      (* B2B *) <<"B","2","B">>,
                      (* enterprise *) <<"e","n","t","e","r","p","r","i","s","e">>,
                      (* startup *) <<"s","t","a","r","t","u","p">>,
                      (* founder *) <<"f","o","u","n","d","e","r">>,
                      (* CEO *) <<"C","E","O">>,
                      (* CTO *) <<"C","T","O">>,
                      (* software company *) <<"s","o","f","t","w","a","r","e"," ","c","o","m","p","a","n","y">> >>],
     [name |-> (* agencies *) <<"a","g","e","n","c","i","e","s">>,
      keywords |-> << (* agency *) <<"a","g","e","n","c","y">>,
                      (* marketing agency *) <<"m","a","r","k","e","t","i","n","g"," ","a","g","e","n","c","y">>,
                      (* design agency *) <<"d","e","s","i","g","n"," ","a","g","e","n","c","y">>,
                      (* consultant *) <<"c","o","n","s","u","l","t","a","n","t">>,
                      (* freelancer *) <<"f","r","e","e","l","a","n","c","e","r">>,
                      (* client work *) <<"c","l","i","e","n","t"," ","w","o","r","k">> >>],
     [name |-> (* ecommerce *) <<"e","c","o","m","m","e","r","c","e">>,
      keywords |-> << (* ecommerce *) <<"e","c","o","m","m","e","r","c","e">>,
                      (* shopify *) <<"s","h","o","p","i","f","y">>,
                      (* amazon seller *) <<"a","m","a","z","o","n"," ","s","e","l","l","e","r">>,
                      (* dropshipping *) <<"d","r","o","p","s","h","i","p","p","i","n","g">>,
                      (* inventory *) <<"i","n","v","e","n","t","o","r","y">>,
                      (* fulfillment *) <<"f","u","l","f","i","l","l","m","e","n","t">> >>],
     [name |-> (* developers *) <<"d","e","v","e","l","o","p","e","r","s">>,
      keywords |-> << (* developer *) <<"d","e","v","e","l","o","p","e","r">>,
                      (* engineer *) <<"e","n","g","i","n","e","e","r">>,
                      (* devops *) <<"d","e","v","o","p","s">>,
                      (* API *) <<"A","P","I">>,
                      (* programming *) <<"p","r","o","g","r","a","m","m","i","n","g">>,
                      (* software development *) <<"s","o","f","t","w","a","r","e"," ","d","e","v","e","l","o","p","m","e","n","t">> >>] >>

(***************************************************************************)
(* Strings                                                                 *)
(***************************************************************************)

(* str.lower() on one character: the upper-case letters map to lower case, *)
(* every other character of the model is unchanged.                        *)
LowerMap ==
  [A |-> "a", B |-> "b", C |-> "c", D |-> "d", E |-> "e", F |-> "f", G |-> "g",
   H |-> "h", I |-> "i", J |-> "j", K |-> "k", L |-> "l", M |-> "m", N |-> "n",
   O |-> "o", P |-> "p", Q |-> "q", R |-> "r", S |-> "s", T |-> "t", U |-> "u",
   V |-> "v", W |-> "w", X |-> "x", Y |-> "y", Z |-> "z"]

LowerChar(c) == IF c \in DOMAIN LowerMap THEN LowerMap[c] ELSE c

(* s.lower() *)
Lower(s) == [i \in 1..Len(s) |-> LowerChar(s[i])]

(* sub in s, for strings: sub occurs in s as a contiguous substring.       *)
Contains(sub, s) ==
  \E i \in 0..(Len(s) - Len(sub)) : \A j \in 1..Len(sub) : s[i + j] = sub[j]

(* s.replace(old, new) for single characters old and new.                  *)
ReplaceChar(s, old, new) == [i \in 1..Len(s) |-> IF s[i] = old THEN new ELSE s[i]]

RECURSIVE Concat(_)
(* "".join(parts) *)
Concat(parts) ==
  IF parts = <<>> THEN <<>> ELSE Head(parts) \o Concat(Tail(parts))


(***************************************************************************)
(* Keyword matcher: scrapers/hn_scraper.py and scrapers/reddit_scraper.py  *)
(***************************************************************************)

RECURSIVE hn_signal_loop_no_lower(_, _)
(* hn_signal_loop without signal.lower(): the signal as configured is      *)
(* searched in the lowered text.                                           *)
hn_signal_loop_no_lower(k, text_lower) ==
  IF k > Len(PAIN_SIGNALS) THEN <<>>
  ELSE (IF Contains(PAIN_SIGNALS[k], text_lower)
          THEN <<PAIN_SIGNALS[k]>> ELSE <<>>)
       \o hn_signal_loop_no_lower(k + 1, text_lower)

RECURSIVE hn_signal_loop(_, _)
(* hn_scraper.contains_pain_signal, the for loop from PAIN_SIGNALS[k] on:  *)
(* the signals appended to found_signals.                                  *)
hn_signal_loop(k, text_lower) ==
  IF k > Len(PAIN_SIGNALS) THEN <<>>
  ELSE (IF Contains(Lower(PAIN_SIGNALS[k]), text_lower)
          THEN <<PAIN_SIGNALS[k]>> ELSE <<>>)
       \o hn_signal_loop(k + 1, text_lower)

(* hn_scraper.contains_pain_signal(text) *)
hn_contains_pain_signal(t) ==
  IF t = None \/ t = <<>> THEN Return(<<FALSE, <<>>>>)
  ELSE LET found_signals == hn_signal_loop(1, Lower(t))
       IN  Return(<<Len(found_signals) > 0, found_signals>>)

RECURSIVE hn_keyword_loop_no_break(_, _, _)
(* hn_keyword_loop without the break: the industry is appended for every   *)
(* keyword that matches.                                                   *)
hn_keyword_loop_no_break(industry, k, text_lower) ==
  IF k > Len(industry.keywords) THEN <<>>
  ELSE (IF Contains(Lower(industry.keywords[k]), text_lower)
          THEN <<industry.name>> ELSE <<>>)
       \o hn_keyword_loop_no_break(industry, k + 1, text_lower)

RECURSIVE hn_keyword_loop(_, _, _)
(* hn_scraper.identify_industry, the inner loop over one industry's        *)
(* keywords from keywords[k] on: what it appends to found_industries.  The *)
(* break leaves the loop at the first keyword that matches.                *)
hn_keyword_loop(industry, k, text_lower) ==
  IF k > Len(industry.keywords) THEN <<>>
  ELSE IF Contains(Lower(industry.keywords[k]), text_lower)
         THEN <<industry.name>>
         ELSE hn_keyword_loop(industry, k + 1, text_lower)

RECURSIVE hn_industry_loop(_, _)
(* hn_scraper.identify_industry, the outer loop from INDUSTRIES[i] on.     *)
hn_industry_loop(i, text_lower) ==
  IF i > Len(INDUSTRIES) THEN <<>>
  ELSE hn_keyword_loop(INDUSTRIES[i], 1, text_lower)
       \o hn_industry_loop(i + 1, text_lower)

(* hn_scraper.identify_industry(text) *)
hn_identify_industry(t) ==
  IF t = None \/ t = <<>> THEN Return(<<>>)
  ELSE Return(hn_industry_loop(1, Lower(t)))

RECURSIVE reddit_signal_loop(_, _)
(* reddit_scraper.contains_pain_signal, the for loop from PAIN_SIGNALS[k]. *)
reddit_signal_loop(k, text_lower) ==
  IF k > Len(PAIN_SIGNALS) THEN <<>>
  ELSE (IF Contains(Lower(PAIN_SIGNALS[k]), text_lower)
          THEN <<PAIN_SIGNALS[k]>> ELSE <<>>)
       \o reddit_signal_loop(k + 1, text_lower)

(* reddit_scraper.contains_pain_signal(text): no guard, so text.lower()    *)
(* raises AttributeError when text is None.                                *)
reddit_contains_pain_signal(t) ==
  IF t = None THEN Raise("AttributeError")
  ELSE LET found_signals == reddit_signal_loop(1, Lower(t))
       IN  Return(<<Len(found_signals) > 0, found_signals>>)

RECURSIVE reddit_keyword_loop(_, _, _)
(* reddit_scraper.identify_industry, the inner loop with its break.        *)
reddit_keyword_loop(industry, k, text_lower) ==
  IF k > Len(industry.keywords) THEN <<>>
  ELSE IF Contains(Lower(industry.keywords[k]), text_lower)
         THEN <<industry.name>>
         ELSE reddit_keyword_loop(industry, k + 1, text_lower)

RECURSIVE reddit_industry_loop(_, _)
(* reddit_scraper.identify_industry, the outer loop from INDUSTRIES[i] on. *)
reddit_industry_loop(i, text_lower) ==
  IF i > Len(INDUSTRIES) THEN <<>>
  ELSE reddit_keyword_loop(INDUSTRIES[i], 1, text_lower)
       \o reddit_industry_loop(i + 1, text_lower)

(* reddit_scraper.identify_industry(text): no guard either.                *)
reddit_identify_industry(t) ==
  IF t = None THEN Raise("AttributeError")
  ELSE Return(reddit_industry_loop(1, Lower(t)))

(* The texts the matcher is applied to: None, and every concatenation of   *)
(* at most MaxFragments of the fragments below.  The fragments hold        *)
(* signals and keywords in other letter case, a signal split over two      *)
(* fragments, two keywords of one industry, a keyword inside a longer word *)
(* and text that matches nothing.                                          *)
MaxFragments == 2

TextFragments ==
  { (* I Wish There Was *)
    <<"I"," ","W","i","s","h"," ","T","h","e","r","e"," ","W","a","s">>,
    (* tired *)            <<"t","i","r","e","d">>,
    (* _of *)              <<" ","o","f">>,
    (* _BOOKKEEPING tax *)
    <<" ","B","O","O","K","K","E","E","P","I","N","G"," ","t","a","x">>,
    (* PAIN POINT *)       <<"P","A","I","N"," ","P","O","I","N","T">>,
    (* _a lawyer *)        <<" ","a"," ","l","a","w","y","e","r">>,
    (* capital *)          <<"c","a","p","i","t","a","l">>,
    (* _ *)                <<" ">> }

FragmentSeqs(S, n) == UNION { [1..k -> S] : k \in 0..n }

(* The example text of the matcher's documentation.                        *)
ExampleText == <<"I"," ","w","i","s","h"," ","t","h","e","r","e"," ","w","a","s"," ","a"," ","t","o","o","l"," ","f","o","r"," ","b","o","o","k","k","e","e","p","i","n","g">>

TextInputs ==
  {None, ExampleText}
    \cup { Concat(fs) : fs \in FragmentSeqs(TextFragments, MaxFragments) }

InitMatchIdle ==
  /\ text = None
  /\ hn_signal = NotRun /\ hn_industry = NotRun
  /\ reddit_signal = NotRun /\ reddit_industry = NotRun

InitMatch ==
  /\ text \in TextInputs
  /\ hn_signal = NotRun /\ hn_industry = NotRun
  /\ reddit_signal = NotRun /\ reddit_industry = NotRun

(* scan_hacker_news calls contains_pain_signal of hn_scraper on a text.    *)
HnContainsPainSignal ==
  /\ hn_signal = NotRun
  /\ hn_signal' = hn_contains_pain_signal(text)
  /\ UNCHANGED <<text, hn_industry, reddit_signal, reddit_industry>>
  /\ UNCHANGED <<scoreVars, intentVars, scanVars, hnVars, redditVars, agentVars, cliVars>>

(* scan_hacker_news calls identify_industry of hn_scraper on a text.       *)
HnIdentifyIndustry ==
  /\ hn_industry = NotRun
  /\ hn_industry' = hn_identify_industry(text)
  /\ UNCHANGED <<text, hn_signal, reddit_signal, reddit_industry>>
  /\ UNCHANGED <<scoreVars, intentVars, scanVars, hnVars, redditVars, agentVars, cliVars>>

(* scan_reddit calls contains_pain_signal of reddit_scraper on a text.     *)
RedditContainsPainSignal ==
  /\ reddit_signal = NotRun
  /\ reddit_signal' = reddit_contains_pain_signal(text)
  /\ UNCHANGED <<text, hn_signal, hn_industry, reddit_industry>>
  /\ UNCHANGED <<scoreVars, intentVars, scanVars, hnVars, redditVars, agentVars, cliVars>>

(* scan_reddit calls identify_industry of reddit_scraper on a text.        *)
RedditIdentifyIndustry ==
  /\ reddit_industry = NotRun
  /\ reddit_industry' = reddit_identify_industry(text)
  /\ UNCHANGED <<text, hn_signal, hn_industry, reddit_signal>>
  /\ UNCHANGED <<scoreVars, intentVars, scanVars, hnVars, redditVars, agentVars, cliVars>>

NextMatch ==
  \/ HnContainsPainSignal
  \/ HnIdentifyIndustry
  \/ RedditContainsPainSignal
  \/ RedditIdentifyIndustry


(***************************************************************************)
(* Scorer: main.score_opportunity and agent/saas_agent.score_opportunity   *)
(***************************************************************************)

(* dict.get(key, default) *)
Get(d, key, default) == IF key \in DOMAIN d THEN d[key] ELSE default

(* main.py score_opportunity(opp) *)
cli_score_opportunity(o) ==
  LET s1 == 0 + Len(Get(o, "pain_signals", <<>>)) * 10
      s2 == s1 + Len(Get(o, "industries", <<>>)) * 5
      post_score == Get(o, "score", 0)
      s3 == IF post_score > 100 THEN s2 + 20
            ELSE IF post_score > 50 THEN s2 + 10
            ELSE IF post_score > 10 THEN s2 + 5
            ELSE s2
      num_comments == Get(o, "num_comments", 0)
      s4 == IF num_comments > 50 THEN s3 + 15
            ELSE IF num_comments > 20 THEN s3 + 10
            ELSE IF num_comments > 5 THEN s3 + 5
            ELSE s3
  IN  s4

(* score_opportunity with >= for > in the first engagement threshold.      *)
score_opportunity_ge(o) ==
  LET s1 == 0 + Len(Get(o, "pain_signals", <<>>)) * 10
      s2 == s1 + Len(Get(o, "industries", <<>>)) * 5
      post_score == Get(o, "score", 0)
      s3 == IF post_score >= 100 THEN s2 + 20
            ELSE IF post_score > 50 THEN s2 + 10
            ELSE IF post_score > 10 THEN s2 + 5
            ELSE s2
      num_comments == Get(o, "num_comments", 0)
      s4 == IF num_comments > 50 THEN s3 + 15
            ELSE IF num_comments > 20 THEN s3 + 10
            ELSE IF num_comments > 5 THEN s3 + 5
            ELSE s3
  IN  s4

(* agent/saas_agent.py score_opportunity(opp) *)
score_opportunity(o) ==
  LET s1 == 0 + Len(Get(o, "pain_signals", <<>>)) * 10
      s2 == s1 + Len(Get(o, "industries", <<>>)) * 5
      post_score == Get(o, "score", 0)
      s3 == IF post_score > 100 THEN s2 + 20
            ELSE IF post_score > 50 THEN s2 + 10
            ELSE IF post_score > 10 THEN s2 + 5
            ELSE s2
      num_comments == Get(o, "num_comments", 0)
      s4 == IF num_comments > 50 THEN s3 + 15
            ELSE IF num_comments > 20 THEN s3 + 10
            ELSE IF num_comments > 5 THEN s3 + 5
            ELSE s3
  IN  s4

(* The names of the configured industries, in declaration order.           *)
IndustryNames == [i \in 1..Len(INDUSTRIES) |-> INDUSTRIES[i].name]

(* The records that are scored: the first k signals, the first m           *)
(* industries, an upstream score and a comment count on either side of     *)
(* every threshold, and either of the two numbers missing (a comment       *)
(* record has no num_comments).  A number that may be missing is <<>> or   *)
(* <<v>>; the record then lacks the key or holds v.                        *)
MaxSignals == 2
MaxIndustries == 2
Missing == <<>>
ScoreInputs == {Missing} \cup { <<v>> : v \in {-1, 0, 10, 11, 50, 51, 100, 101, 150} }
CommentInputs == {Missing} \cup { <<v>> : v \in {0, 5, 6, 20, 21, 50, 51, 60} }

OppRecord(signals, industries, score, num_comments) ==
  LET base == [pain_signals |-> signals, industries |-> industries]
      r1 == IF score = Missing THEN base ELSE ("score" :> score[1]) @@ base
  IN  IF num_comments = Missing THEN r1
      ELSE ("num_comments" :> num_comments[1]) @@ r1

OppInputs ==
  { OppRecord(SubSeq(PAIN_SIGNALS, 1, k), SubSeq(IndustryNames, 1, m), s, c) :
      k \in 1..MaxSignals, m \in 0..MaxIndustries,
      s \in ScoreInputs, c \in CommentInputs }

(* The example of the scorer's documentation: two signals, one industry,   *)
(* score 150 and 60 comments.                                              *)
ExampleOpp == OppRecord(SubSeq(PAIN_SIGNALS, 1, 2), SubSeq(IndustryNames, 1, 1), <<150>>, <<60>>)

InitScoreIdle ==
  /\ opp = ExampleOpp
  /\ cli_score = NotRun /\ agent_score = NotRun

InitScore ==
  /\ opp \in OppInputs
  /\ cli_score = NotRun /\ agent_score = NotRun

(* main() scores a record it pulled from a scraper.                        *)
CliScoreOpportunity ==
  /\ cli_score = NotRun
  /\ cli_score' = Return(cli_score_opportunity(opp))
  /\ UNCHANGED <<opp, agent_score>>
  /\ UNCHANGED <<matchVars, intentVars, scanVars, hnVars, redditVars, agentVars, cliVars>>

(* run_scan scores a record it pulled from the scraper.                    *)
AgentScoreOpportunity ==
  /\ agent_score = NotRun
  /\ agent_score' = Return(score_opportunity(opp))
  /\ UNCHANGED <<opp, cli_score>>
  /\ UNCHANGED <<matchVars, intentVars, scanVars, hnVars, redditVars, agentVars, cliVars>>

NextScore ==
  \/ CliScoreOpportunity
  \/ AgentScoreOpportunity


(***************************************************************************)
(* Intent parser: agent/saas_agent.parse_user_intent                       *)
(***************************************************************************)

(* The keyword lists of the four action rules, in the order of the         *)
(* if/elif chain.                                                          *)
ANALYZE_WORDS == << <<"a","n","a","l","y","z","e">>, <<"a","n","a","l","y","s","i","s">>, <<"i","n","s","i","g","h","t","s">>, <<"s","u","m","m","a","r","i","z","e">>, <<"s","u","m","m","a","r","y">> >>
EXPLAIN_WORDS == << <<"e","x","p","l","a","i","n">>, <<"w","h","a","t"," ","i","s">>, <<"h","o","w"," ","d","o","e","s">>, <<"h","e","l","p">> >>
LIST_INDUSTRIES_WORDS ==
  << <<"l","i","s","t"," ","i","n","d","u","s","t","r","i","e","s">>, <<"w","h","a","t"," ","i","n","d","u","s","t","r","i","e","s">>, <<"a","v","a","i","l","a","b","l","e"," ","i","n","d","u","s","t","r","i","e","s">> >>
LIST_SIGNALS_WORDS == << <<"l","i","s","t"," ","s","i","g","n","a","l","s">>, <<"w","h","a","t"," ","s","i","g","n","a","l","s">>, <<"p","a","i","n"," ","s","i","g","n","a","l","s">> >>

(* any(word in query_lower for word in words) *)
AnyWordIn(words, query_lower) ==
  \E k \in 1..Len(words) : Contains(words[k], query_lower)

(* parse_user_intent, the if/elif chain that sets intent["action"].        *)
intent_action(query_lower) ==
  IF AnyWordIn(ANALYZE_WORDS, query_lower) THEN "analyze"
  ELSE IF AnyWordIn(EXPLAIN_WORDS, query_lower) THEN "explain"
  ELSE IF AnyWordIn(LIST_INDUSTRIES_WORDS, query_lower) THEN "list_industries"
  ELSE IF AnyWordIn(LIST_SIGNALS_WORDS, query_lower) THEN "list_signals"
  ELSE "scan"

RECURSIVE intent_industry_loop(_, _)
(* parse_user_intent, the loop over INDUSTRIES.keys() from key i on: the   *)
(* first industry whose name, or whose name with "_" replaced by " ",      *)
(* occurs in the query; None when the loop ends without a break.           *)
intent_industry_loop(i, query_lower) ==
  IF i > Len(INDUSTRIES) THEN None
  ELSE LET industry == INDUSTRIES[i].name
       IN  IF \/ Contains(ReplaceChar(Lower(industry), "_", " "), query_lower)
              \/ Contains(Lower(industry), query_lower)
             THEN industry
             ELSE intent_industry_loop(i + 1, query_lower)

(* str.split(): the maximal runs of non-whitespace characters, in order.   *)
Whitespace == {" "}

RECURSIVE SplitFrom(_, _, _)
SplitFrom(s, i, word) ==
  IF i > Len(s) THEN (IF word = <<>> THEN <<>> ELSE <<word>>)
  ELSE IF s[i] \in Whitespace
         THEN (IF word = <<>> THEN <<>> ELSE <<word>>) \o SplitFrom(s, i + 1, <<>>)
         ELSE SplitFrom(s, i + 1, Append(word, s[i]))

Split(s) == SplitFrom(s, 1, <<>>)

(* The characters str.isdigit() accepts: the decimal digits, and digits    *)
(* that are not decimal, of which the superscript two (U+00B2, written     *)
(* "^2" here) stands for all.  int() accepts the decimal digits only.      *)
DecimalDigits == <<"0", "1", "2", "3", "4", "5", "6", "7", "8", "9">>
Superscript2 == "^2"
IsDecimalChar(c) == \E d \in 1..10 : DecimalDigits[d] = c
IsDigitChar(c) == IsDecimalChar(c) \/ c = Superscript2

(* word.isdigit() *)
IsDigit(word) == Len(word) > 0 /\ \A k \in 1..Len(word) : IsDigitChar(word[k])

DigitValue(c) == (CHOOSE d \in 1..10 : DecimalDigits[d] = c) - 1

RECURSIVE DecimalValue(_, _)
DecimalValue(word, acc) ==
  IF word = <<>> THEN acc
  ELSE DecimalValue(Tail(word), acc * 10 + DigitValue(Head(word)))

(* int(word) for a word of digits: ValueError unless all are decimal.      *)
ParseInt(word) ==
  IF \A k \in 1..Len(word) : IsDecimalChar(word[k])
    THEN Return(DecimalValue(word, 0))
    ELSE Raise("ValueError")

Min(a, b) == IF a < b THEN a ELSE b

(* The default limit of a new intent, and the cap on a requested limit.    *)
DEFAULT_LIMIT == 10
LIMIT_CAP == 50

RECURSIVE intent_limit_loop(_, _)
(* parse_user_intent, the loop over query_lower.split() from word k on:    *)
(* the limit it leaves in the intent, or the exception int() raises.       *)
intent_limit_loop(words, k) ==
  IF k > Len(words) THEN Return(DEFAULT_LIMIT)
  ELSE IF IsDigit(words[k])
         THEN LET n == ParseInt(words[k])
              IN  IF n.raised THEN n ELSE Return(Min(n.value, LIMIT_CAP))
         ELSE intent_limit_loop(words, k + 1)

(* parse_user_intent(query) *)
parse_user_intent(q) ==
  LET query_lower == Lower(q)
      lim == intent_limit_loop(Split(query_lower), 1)
  IN  IF lim.raised THEN lim
      ELSE Return([action |-> intent_action(query_lower),
                   industry_filter |-> intent_industry_loop(1, query_lower),
                   limit |-> lim.value])

(* The queries: every concatenation of at most MaxQueryFragments of the    *)
(* fragments below, and the two example queries of the documentation.      *)
MaxQueryFragments == 3

QueryFragments ==
  { <<"A","n","a","l","y","z","e">>, <<" ","h","e","l","p">>, <<"l","i","s","t"," ","i","n","d","u","s","t","r","i","e","s">>, <<" ","l","i","s","t"," ","s","i","g","n","a","l","s">>,
    <<" ","5">>, <<" ","7","5">>, <<"0">>, <<" ", Superscript2>>,
    <<" ","f","i","n","a","n","c","e">>, <<" ","R","e","a","l","_","E","s","t","a","t","e">>, <<" ","f","i","n","t","e","c","h">> }

QueryListIndustries == <<"l","i","s","t"," ","i","n","d","u","s","t","r","i","e","s">>
QueryFindFintech == <<"f","i","n","d"," ","5"," ","f","i","n","t","e","c","h"," ","o","p","p","o","r","t","u","n","i","t","i","e","s">>

QueryInputs ==
  {QueryListIndustries, QueryFindFintech}
    \cup { Concat(fs) : fs \in FragmentSeqs(QueryFragments, MaxQueryFragments) }

InitIntentIdle ==
  /\ query = QueryListIndustries
  /\ intent = NotRun

InitIntent ==
  /\ query \in QueryInputs
  /\ intent = NotRun

(* process_query calls parse_user_intent(query).                           *)
ParseUserIntent ==
  /\ intent = NotRun
  /\ intent' = parse_user_intent(query)
  /\ UNCHANGED query
  /\ UNCHANGED <<matchVars, scoreVars, scanVars, hnVars, redditVars, agentVars, cliVars>>

NextIntent == ParseUserIntent


(***************************************************************************)
(* Aggregator: agent/saas_agent.run_scan                                   *)
(***************************************************************************)

(* Python truthiness of an Optional[str]: None and "" are false.           *)
Truthy(s) == s # None /\ s # <<>>

(* filter_drops with the test inverted (in for not in).                    *)
filter_drops_inverted(f, o) ==
  /\ Truthy(f)
  /\ LET industries == Get(o, "industries", <<>>)
     IN  Lower(f) \in { Lower(industries[k]) : k \in 1..Len(industries) }

(* run_scan, the filter: TRUE when the record is skipped by continue.      *)
filter_drops(f, o) ==
  /\ Truthy(f)
  /\ LET industries == Get(o, "industries", <<>>)
     IN  Lower(f) \notin { Lower(industries[k]) : k \in 1..Len(industries) }

RECURSIVE insert_desc_ties_first(_, _)
(* insert_desc as a sort that is not stable would have it: x goes ahead of *)
(* the elements whose key is equal.                                        *)
insert_desc_ties_first(s, x) ==
  IF s = <<>> THEN <<x>>
  ELSE IF Get(Head(s), "priority_score", 0) > Get(x, "priority_score", 0)
         THEN <<Head(s)>> \o insert_desc_ties_first(Tail(s), x)
         ELSE <<x>> \o s

RECURSIVE insert_desc(_, _)
(* Where a stable descending sort puts x in the already sorted list s:     *)
(* after every element whose key is greater or equal.                      *)
insert_desc(s, x) ==
  IF s = <<>> THEN <<x>>
  ELSE IF Get(Head(s), "priority_score", 0) >= Get(x, "priority_score", 0)
         THEN <<Head(s)>> \o insert_desc(Tail(s), x)
         ELSE <<x>> \o s

RECURSIVE sort_desc_from(_, _, _)
sort_desc_from(s, k, sorted) ==
  IF k > Len(s) THEN sorted
  ELSE sort_desc_from(s, k + 1, insert_desc(sorted, s[k]))

(* sort_by_priority as it would be without the sort: the records stay in  *)
(* the order in which they were collected.                                 *)
sort_by_priority_missing(s) == s

(* opportunities.sort(key=lambda x: x.get("priority_score", 0),            *)
(* reverse=True): list.sort is stable, also with reverse=True.             *)
sort_by_priority(s) == sort_desc_from(s, 1, <<>>)

(* s[:n] for n >= 0 *)
Prefix(s, n) == SubSeq(s, 1, Min(n, Len(s)))

(* How many records the loop collects before it breaks: limit * 3.         *)
OVERFETCH == 3

(* The records scan_hacker_news() can yield, without the fields run_scan   *)
(* never reads (source, title, text, url): a story with one signal, a      *)
(* story with two signals in finance, a comment in finance and legal, and  *)
(* a comment with two signals.  A comment record has no num_comments.      *)
ScanPool ==
  { [type |-> "story", pain_signals |-> SubSeq(PAIN_SIGNALS, 1, 1),
     industries |-> <<>>, score |-> 5, num_comments |-> 3],
    [type |-> "story", pain_signals |-> SubSeq(PAIN_SIGNALS, 1, 2),
     industries |-> SubSeq(IndustryNames, 1, 1), score |-> 150, num_comments |-> 60],
    [type |-> "comment", pain_signals |-> SubSeq(PAIN_SIGNALS, 1, 1),
     industries |-> SubSeq(IndustryNames, 1, 2), score |-> 0],
    [type |-> "comment", pain_signals |-> SubSeq(PAIN_SIGNALS, 1, 2),
     industries |-> <<>>, score |-> 0] }

(* The feeds: every sequence of at most MaxFeed pool records.  Each record *)
(* carries in id the position at which the generator yields it, which      *)
(* stands for the identity of the dict object.                             *)
MaxFeed == 4
MaxLimit == 3

FeedInputs ==
  { [i \in 1..Len(fs) |-> ("id" :> i) @@ fs[i]] : fs \in FragmentSeqs(ScanPool, MaxFeed) }

(* The filters: None, "", an industry name as parse_user_intent gives it,  *)
(* names in other letter case, and an industry no pool record has.         *)
FilterInputs ==
  { None, <<>>, <<"f","i","n","a","n","c","e">>, <<"F","i","n","a","n","c","e">>, <<"L","E","G","A","L">>, <<"h","e","a","l","t","h","c","a","r","e">> }

InitScanIdle ==
  /\ feed = <<>>
  /\ industry_filter = None
  /\ limit = 0
  /\ pulled = 0
  /\ opportunities = <<>>
  /\ scan_pc = "idle"
  /\ scan_result = <<>>

InitScan ==
  /\ feed \in FeedInputs
  /\ industry_filter \in FilterInputs
  /\ limit \in 0..MaxLimit
  /\ pulled = 0
  /\ opportunities = <<>>
  /\ scan_pc = "loop"
  /\ scan_result = <<>>

(* run_scan, one iteration of the for loop: pull the next record from the  *)
(* generator (which fetches it), score it, filter it, collect it, and      *)
(* break when limit * 3 records are collected.                             *)
ScanPull ==
  /\ scan_pc = "loop"
  /\ pulled < Len(feed)
  /\ LET o == feed[pulled + 1]
         scored == ("priority_score" :> score_opportunity(o)) @@ o
         dropped == filter_drops(industry_filter, scored)
         collected == IF dropped THEN opportunities ELSE Append(opportunities, scored)
     IN  /\ pulled' = pulled + 1
         /\ opportunities' = collected
         /\ scan_pc' = IF ~dropped /\ Len(collected) >= limit * OVERFETCH
                         THEN "sort" ELSE "loop"
  /\ UNCHANGED <<feed, industry_filter, limit, scan_result>>
  /\ UNCHANGED <<matchVars, scoreVars, intentVars, hnVars, redditVars, agentVars, cliVars>>

(* run_scan after the loop (the generator is exhausted, or the loop broke):*)
(* sort in place and return the first limit records.                       *)
ScanReturn ==
  /\ \/ scan_pc = "sort"
     \/ scan_pc = "loop" /\ pulled = Len(feed)
  /\ opportunities' = sort_by_priority(opportunities)
  /\ scan_result' = Prefix(sort_by_priority(opportunities), limit)
  /\ scan_pc' = "done"
  /\ UNCHANGED <<feed, industry_filter, limit, pulled>>
  /\ UNCHANGED <<matchVars, scoreVars, intentVars, hnVars, redditVars, agentVars, cliVars>>

NextScan ==
  \/ ScanPull
  \/ ScanReturn

(***************************************************************************)
(* scrapers/hn_scraper.py: the Hacker News extractor                       *)
(***************************************************************************)

(* The Python values json() gives: a dict, a list, None.                   *)
PyDict(d) == [kind |-> "dict", value |-> d]
PyList(l) == [kind |-> "list", value |-> l]
PyNone    == [kind |-> "None"]

(* bool(v) *)
PyTruthy(v) ==
  CASE v.kind = "dict" -> DOMAIN v.value # {}
    [] v.kind = "list" -> Len(v.value) > 0
    [] OTHER -> FALSE

(* What requests.get(...), raise_for_status() and json() come to: one of   *)
(* them raises (a timeout, a status that is not 2xx, a body that is not    *)
(* JSON), or json() gives the parsed body.                                 *)
Failed(e) == [error |-> e]
Json(v)   == [json |-> v]
FetchErrors == {"Timeout", "HTTPError", "JSONDecodeError"}

HN_STORIES_TO_CHECK == 100
ASK_LIMIT == 50
KIDS_CAP == 20
MAX_DEPTH == 2
HN_MIN_COMMENTS == 5
TEXT_CAP == 500
TITLE_CAP == 50

(* get_top_stories, get_new_stories, get_ask_stories: the try block and    *)
(* its except.  A parsed body that is not a list cannot be sliced: the     *)
(* TypeError is raised inside the try block.                               *)
listing_ids(response, n) ==
  IF "error" \in DOMAIN response THEN <<>>
  ELSE IF response.json.kind = "list" THEN Prefix(response.json.value, n)
  ELSE <<>>

(* The item tree the API serves: stories 1, 2 and 3.  Story 1 has a chain  *)
(* of replies four levels deep and a comment 12 with a reply; story 3 has  *)
(* MaxWide direct comments.                                                *)
MaxWide == 21

HnStories == {1, 2, 3}

HnKids(id) ==
  CASE id = 1    -> <<11, 12, 13>>
    [] id = 11   -> <<111>>
    [] id = 111  -> <<1111>>
    [] id = 1111 -> <<11111>>
    [] id = 12   -> <<121>>
    [] id = 2    -> <<21>>
    [] id = 3    -> [k \in 1..MaxWide |-> 300 + k]
    [] OTHER     -> <<>>

(* A text of more than TEXT_CAP characters that begins with a signal.      *)
LongFill == 490

LongPainText == <<"I"," ","w","i","s","h"," ","t","h","e","r","e"," ","w","a","s"," ","a"," ","t","a","x"," ","t","o","o","l"," ">> \o [i \in 1..LongFill |-> "x"]

(* The text field of the item, <<>> when the item has none.  The items     *)
(* 111, 11111, 121, 21 and the last two comments of story 3 always carry a *)
(* signal.                                                                 *)
HnText(w, id) ==
  CASE id = 1 -> IF 1 \in w.pain
                   THEN (IF w.long THEN LongPainText ELSE <<"I","s"," ","t","h","e","r","e"," ","a"," ","t","o","o","l"," ","f","o","r"," ","a"," ","l","a","w","y","e","r">>)
                   ELSE <<>>
    [] id = 2 -> IF 2 \in w.pain THEN <<"f","r","u","s","t","r","a","t","i","n","g">> ELSE <<>>
    [] id = 3 -> <<>>
    [] id = 1111 -> IF 1111 \in w.pain
                      THEN (IF w.long THEN LongPainText ELSE <<"t","i","r","e","d"," ","o","f"," ","p","a","y","r","o","l","l">>)
                      ELSE <<"n","i","c","e">>
    [] OTHER -> IF id \in w.pain \cup {111, 11111, 121, 21, 300 + KIDS_CAP, 300 + MaxWide}
                  THEN <<"T","i","r","e","d"," ","o","f"," ","t","a","x">> ELSE <<"o","k">>

(* The JSON object of a healthy item.                                      *)
hn_item_object(w, id) ==
  LET base == IF id \in HnStories
                THEN [id |-> id, type |-> "story", title |-> CASE id = 1 -> <<"A","s","k"," ","H","N",":"," ","i","n","v","o","i","c","i","n","g">>
                                      [] id = 2 -> IF 2 \in w.pain
                                                     THEN <<"B","i","l","l","i","n","g"," ","i","s"," ","s","o">>
                                                     ELSE <<"S","h","o","w"," ","H","N",":"," ","a"," ","g","a","m","e">>
                                      [] id = 3 -> <<"L","a","u","n","c","h"," ","H","N">>,
                      score |-> 120,
                      descendants |-> CASE id = 1 -> 8 [] id = 2 -> 3 [] id = 3 -> MaxWide]
                ELSE [id |-> id, type |-> "comment"]
      kids == IF HnKids(id) = <<>> THEN base ELSE ("kids" :> HnKids(id)) @@ base
  IN  IF HnText(w, id) = <<>> THEN kids ELSE ("text" :> HnText(w, id)) @@ kids

(* What the item endpoint answers for the id.                              *)
hn_item_response(w, id) ==
  IF id # w.fault_node THEN Json(PyDict(hn_item_object(w, id)))
  ELSE CASE w.fault \in FetchErrors -> Failed(w.fault)
         [] w.fault = "null"    -> Json(PyNone)
         [] w.fault = "list"    -> Json(PyList(<<id>>))
         [] w.fault = "deleted" -> Json(PyDict(("deleted" :> TRUE) @@ hn_item_object(w, id)))
         [] w.fault = "job"     -> Json(PyDict(("type" :> "job") @@ hn_item_object(w, id)))

(* What a listing endpoint answers.                                        *)
hn_listing_response(fault, ids) ==
  CASE fault = "none"   -> Json(PyList(ids))
    [] fault = "object" -> Json(PyDict([error |-> <<"P","e","r","m","i","s","s","i","o","n"," ","d","e","n","i","e","d">>]))
    [] OTHER            -> Failed(fault)

get_top_stories(w) == listing_ids(hn_listing_response(w.top, <<1, 2>>), HN_STORIES_TO_CHECK)
get_new_stories(w) == listing_ids(hn_listing_response(w.new, <<2, 3>>), HN_STORIES_TO_CHECK)
get_ask_stories(w) == listing_ids(hn_listing_response(w.ask, <<3, 1>>), ASK_LIMIT)

(* get_item(item_id): response.json() or {}, and {} from the except.       *)
get_item(w, item_id) ==
  LET response == hn_item_response(w, item_id)
  IN  IF "error" \in DOMAIN response THEN PyDict(<<>>)
      ELSE IF PyTruthy(response.json) THEN response.json
      ELSE PyDict(<<>>)

(* What a call has done so far: the comments it collected, the ids it      *)
(* handed to get_item, and the exception it raised ("" for none).          *)
Walk(comments, fetched, error) ==
  [comments |-> comments, fetched |-> fetched, error |-> error]

RECURSIVE get_comments(_, _, _, _)
RECURSIVE get_comments_loop(_, _, _, _, _, _)

(* get_comments, the for loop from kids[k] on.  comment.get(...) raises    *)
(* AttributeError when the item is not a dict.                             *)
get_comments_loop(w, kids, k, max_depth, current_depth, acc) ==
  IF k > Len(kids) \/ acc.error # "" THEN acc
  ELSE
    LET comment == get_item(w, kids[k])
        fetched == Append(acc.fetched, kids[k])
        next(a) == get_comments_loop(w, kids, k + 1, max_depth, current_depth, a)
    IN  IF ~PyTruthy(comment) THEN next(Walk(acc.comments, fetched, ""))
        ELSE IF comment.kind # "dict" THEN Walk(acc.comments, fetched, "AttributeError")
        ELSE IF Get(comment.value, "type", "") = "comment"
                /\ ~Get(comment.value, "deleted", FALSE)
          THEN IF current_depth < max_depth
                 THEN LET sub == get_comments(w, comment.value, max_depth, current_depth + 1)
                      IN  next(Walk(Append(acc.comments, comment.value) \o sub.comments,
                                    fetched \o sub.fetched, sub.error))
                 ELSE next(Walk(Append(acc.comments, comment.value), fetched, ""))
          ELSE next(Walk(acc.comments, fetched, ""))

(* get_comments(story, max_depth, current_depth) *)
get_comments(w, story, max_depth, current_depth) ==
  get_comments_loop(w, Prefix(Get(story, "kids", <<>>), KIDS_CAP), 1,
                    max_depth, current_depth, Walk(<<>>, <<>>, ""))

(* f"{v}" of a string or None *)
Format(v) == IF v = None THEN <<"N","o","n","e">> ELSE v

(* X[:n] if X else "" *)
Truncated(t, n) == IF Truthy(t) THEN Prefix(t, n) ELSE <<>>

(* `if has_pain: yield record`, without the test.                          *)
yield_if_unconditional(has_pain, record) == <<record>>

(* if has_pain: yield record *)
yield_if(has_pain, record) == IF has_pain THEN <<record>> ELSE <<>>

(* scan_hacker_news: the record of the story.                              *)
hn_story_record(story_id, story, title, story_text, full_text) ==
  [source |-> "hackernews",
   title |-> title,
   text |-> Truncated(story_text, TEXT_CAP),
   url |-> <<"https://news.ycombinator.com/item?id=", story_id>>,
   score |-> Get(story, "score", 0),
   num_comments |-> Get(story, "descendants", 0),
   pain_signals |-> hn_contains_pain_signal(full_text).value[2],
   industries |-> hn_identify_industry(full_text).value,
   type |-> "story"]

RECURSIVE hn_comment_records(_, _, _)
(* scan_hacker_news, the for loop over comments from comments[k] on.       *)
hn_comment_records(comments, k, title) ==
  IF k > Len(comments) THEN <<>>
  ELSE
    LET comment == comments[k]
        comment_text == Get(comment, "text", <<>>)
    IN  yield_if(hn_contains_pain_signal(comment_text).value[1],
          [source |-> "hackernews",
           title |-> <<"C","o","m","m","e","n","t"," ","o","n",":"," ">> \o Prefix(title, TITLE_CAP),
           text |-> Truncated(comment_text, TEXT_CAP),
           url |-> <<"https://news.ycombinator.com/item?id=", Get(comment, "id", None)>>,
           score |-> 0,
           pain_signals |-> hn_contains_pain_signal(comment_text).value[2],
           industries |-> hn_identify_industry(comment_text).value,
           type |-> "comment"])
        \o hn_comment_records(comments, k + 1, title)

(* scan_hacker_news, one iteration of the for loop over story_ids: the     *)
(* records it yields, the comments get_comments returned, the ids handed   *)
(* to get_item, and the exception that leaves the generator ("" for none). *)
hn_story(w, story_id) ==
  LET story == get_item(w, story_id)
      Out(records, walk, error) ==
        [records |-> records, comments |-> walk.comments,
         fetched |-> <<story_id>> \o walk.fetched, error |-> error]
      nothing == Walk(<<>>, <<>>, "")
  IN  IF ~PyTruthy(story) THEN Out(<<>>, nothing, "")
      ELSE IF story.kind # "dict" THEN Out(<<>>, nothing, "AttributeError")
      ELSE
        LET title == Get(story.value, "title", <<>>)
            story_text == Get(story.value, "text", <<>>)
            full_text == Format(title) \o <<" ">> \o Format(story_text)
            own == yield_if(hn_contains_pain_signal(full_text).value[1],
                            hn_story_record(story_id, story.value, title, story_text, full_text))
        IN  IF Get(story.value, "descendants", 0) >= HN_MIN_COMMENTS
              THEN LET walk == get_comments(w, story.value, MAX_DEPTH, 0)
                   IN  IF walk.error # "" THEN Out(own, Walk(<<>>, walk.fetched, ""), walk.error)
                       ELSE Out(own \o hn_comment_records(walk.comments, 1, title), walk, "")
              ELSE Out(own, nothing, "")

(* The worlds of the extractor: every combination of listing failures with *)
(* healthy items, every fault at one of the items 1, 12 and 111, every     *)
(* choice of the items that carry a signal, and the long texts.            *)
(* A world: how each listing fails, which item is faulty and how, which of *)
(* the items 1, 2, 11 and 1111 carry a pain signal, and whether the texts  *)
(* of 1 and 1111 are long.                                                 *)
HnWorld(top, new, ask, node, fault, pain, long) ==
  [top |-> top, new |-> new, ask |-> ask, fault_node |-> node, fault |-> fault,
   pain |-> pain, long |-> long]

HnWorlds ==
  { HnWorld(t, n, a, 0, "none", {1, 2, 11, 1111}, FALSE) :
      t \in {"none", "object"} \cup FetchErrors, n \in {"none", "Timeout"}, a \in {"none", "HTTPError"} }
  \cup { HnWorld("none", "Timeout", "none", x, f, p, FALSE) :
           x \in {1, 12, 111}, f \in {"null", "list", "deleted", "job"} \cup FetchErrors, p \in {{}, {1, 2, 11, 1111}} }
  \cup { HnWorld("none", "none", "HTTPError", 0, "none", p, FALSE) : p \in SUBSET {1, 2, 11, 1111} }
  \cup { HnWorld("JSONDecodeError", "Timeout", "none", 0, "none", p, TRUE) :
           p \in {{1}, {1111}} }

InitHnIdle ==
  /\ hn_world = HnWorld("none", "none", "none", 0, "none", {}, FALSE)
  /\ hn_pc = "idle"
  /\ story_ids = {}
  /\ hn_fetched = <<>>
  /\ hn_returned = <<>>
  /\ hn_yielded = <<>>
  /\ hn_error = ""

InitHn ==
  /\ hn_world \in HnWorlds
  /\ hn_pc = "start"
  /\ story_ids = {}
  /\ hn_fetched = <<>>
  /\ hn_returned = <<>>
  /\ hn_yielded = <<>>
  /\ hn_error = ""

Range(s) == { s[k] : k \in 1..Len(s) }

(* scan_hacker_news up to the for loop: the three listings are fetched and *)
(* their ids united in a set.                                              *)
HnScanStart ==
  /\ hn_pc = "start"
  /\ story_ids' = Range(get_top_stories(hn_world)) \cup Range(get_new_stories(hn_world))
                    \cup Range(get_ask_stories(hn_world))
  /\ hn_pc' = "stories"
  /\ UNCHANGED <<hn_world, hn_fetched, hn_returned, hn_yielded, hn_error>>
  /\ UNCHANGED <<matchVars, scoreVars, intentVars, scanVars, redditVars, agentVars, cliVars>>

(* scan_hacker_news, one iteration of the for loop.  A set is iterated in  *)
(* no order the program chooses: any remaining id may come next.           *)
HnScanStory ==
  /\ hn_pc = "stories"
  /\ \E story_id \in story_ids :
       \E out \in {hn_story(hn_world, story_id)} :
           /\ story_ids' = story_ids \ {story_id}
           /\ hn_fetched' = hn_fetched \o out.fetched
           /\ hn_returned' = hn_returned \o [k \in 1..Len(out.comments) |-> out.comments[k].id]
           /\ hn_yielded' = hn_yielded \o out.records
           /\ hn_error' = out.error
           /\ hn_pc' = IF out.error # "" THEN "raised" ELSE "stories"
  /\ UNCHANGED hn_world
  /\ UNCHANGED <<matchVars, scoreVars, intentVars, scanVars, redditVars, agentVars, cliVars>>

(* scan_hacker_news: the for loop is over, the generator is exhausted.     *)
HnScanEnd ==
  /\ hn_pc = "stories"
  /\ story_ids = {}
  /\ hn_pc' = "done"
  /\ UNCHANGED <<hn_world, story_ids, hn_fetched, hn_returned, hn_yielded, hn_error>>
  /\ UNCHANGED <<matchVars, scoreVars, intentVars, scanVars, redditVars, agentVars, cliVars>>

NextHn ==
  \/ HnScanStart
  \/ HnScanStory
  \/ HnScanEnd


(***************************************************************************)
(* scrapers/reddit_scraper.py: the Reddit extractor                        *)
(***************************************************************************)

(* config.py: SUBREDDITS.  A subreddit name is only copied into URLs and   *)
(* records, so it is kept whole.                                           *)
SUBREDDITS ==
  << "entrepreneur", "startups", "SaaS", "smallbusiness", "Bookkeeping", "realestate",
     "freelance", "webdev", "devops", "sysadmin", "marketing", "digital_marketing",
     "ecommerce", "shopify", "lawfirm", "medicine", "healthcare", "accounting",
     "consulting", "agency" >>

COMMENTS_OVER == 5
MIN_COMMENT_SCORE == 3

(* The posts the API serves.  Post a of the first subreddit has more than  *)
(* COMMENTS_OVER comments, post b has exactly that many, post c is in the  *)
(* second subreddit.                                                       *)
RedditPost(title, selftext, permalink, num_comments) ==
  PyDict([kind |-> "t3",
          data |-> [title |-> title, selftext |-> selftext, permalink |-> permalink,
                    score |-> 40, num_comments |-> num_comments]])

RedditPostA(w) ==
  RedditPost(<<"P","a","y","r","o","l","l"," ","q","u","e","s","t","i","o","n">>,
             CASE w.post = "pain" -> <<"I","'","d"," ","p","a","y"," ","f","o","r"," ","a"," ","p","a","y","r","o","l","l"," ","t","o","o","l">>
               [] w.post = "long" -> LongPainText
               [] OTHER -> <<>>,
             "/r/entrepreneur/comments/a", 12)
RedditPostB == RedditPost(<<"T","i","r","e","d"," ","o","f"," ","i","n","v","o","i","c","e","s">>, <<>>, "/r/entrepreneur/comments/b", COMMENTS_OVER)
RedditPostC == RedditPost(<<"H","i","r","i","n","g"," ","i","s"," ","s","o">>, <<"f","r","u","s","t","r","a","t","i","n","g">>, "/r/startups/comments/c", 0)

(* What the hot listing of SUBREDDITS[i] answers: the first subreddit as   *)
(* the world says, the second is healthy, of the others every second one   *)
(* answers 403 and the rest have no posts.                                 *)
reddit_listing_response(w, i) ==
  LET Listing(children) == Json(PyDict([kind |-> "Listing", data |-> [children |-> children]]))
  IN  CASE i = 1 /\ w.listing \in FetchErrors -> Failed(w.listing)
        [] i = 1 /\ w.listing = "list" -> Json(PyList(<<1>>))
        [] i = 1 /\ w.listing = "child" -> Listing(<<PyList(<<1>>), RedditPostB>>)
        [] i = 1 /\ w.listing = "none" -> Listing(<<RedditPostA(w), RedditPostB>>)
        [] i = 2 -> Listing(<<RedditPostC>>)
        [] i > 2 /\ i % 2 = 1 -> Failed("HTTPError")
        [] OTHER -> Listing(<<>>)

(* The body of comment 1 of post a.  A body of JSON null is None.          *)
RedditBody(w) ==
  CASE w.body = "pain" -> <<"I"," ","w","i","s","h"," ","t","h","e","r","e"," ","w","a","s"," ","a"," ","b","a","n","k"," ","f","o","r"," ","t","h","i","s">>
    [] w.body = "long" -> LongPainText
    [] w.body = "None" -> None
    [] OTHER -> <<"s","a","m","e"," ","h","e","r","e">>

(* The comments of post a: comment 1 with a reply, comment 2, and a        *)
(* "load more" stub after it.                                              *)
RedditCommentTree(w) ==
  LET replies == [kind |-> "dict",
                  value |-> [data |-> [children |->
                    << [kind |-> "t1",
                        data |-> [body |-> <<"w","a","s","t","e"," ","s","o"," ","m","u","c","h"," ","t","i","m","e"," ","o","n"," ","t","a","x">>, score |-> 7,
                                  author |-> "b", replies |-> [kind |-> "str"]]],
                       [kind |-> "more", data |-> [count |-> 4]] >>]]]
  IN  << [kind |-> "t1",
          data |-> [body |-> RedditBody(w), score |-> w.score, author |-> "a",
                    replies |-> replies]] >>

(* What the comment endpoint answers for the permalink.                    *)
reddit_comments_response(w, permalink) ==
  LET post == [kind |-> "Listing", data |-> [children |-> <<>>]]
      comments == [kind |-> "Listing", data |-> [children |-> RedditCommentTree(w)]]
  IN  CASE w.comments \in FetchErrors -> Failed(w.comments)
        [] w.comments = "short" -> Json(PyList(<<post>>))
        [] OTHER -> Json(PyList(<<post, comments>>))

(* get_subreddit_posts(subreddit): the try block and its except.  A parsed *)
(* body that is not a dict has no get: the AttributeError is raised inside *)
(* the try block.                                                          *)
get_subreddit_posts(w, i) ==
  LET response == reddit_listing_response(w, i)
  IN  IF "error" \in DOMAIN response THEN <<>>
      ELSE IF response.json.kind # "dict" THEN <<>>
      ELSE Get(Get(response.json.value, "data", <<>>), "children", <<>>)

RECURSIVE extract_comments(_, _)
(* extract_comments(children, depth) *)
extract_comments(children, depth) ==
  IF children = <<>> THEN <<>>
  ELSE
    LET child == Head(children)
        data == Get(child, "data", <<>>)
        replies == Get(data, "replies", PyNone)
        own == << [body |-> Get(data, "body", <<>>), score |-> Get(data, "score", 0),
                   author |-> Get(data, "author", "")] >>
        below == IF replies.kind = "dict"
                   THEN extract_comments(Get(Get(replies.value, "data", <<>>), "children", <<>>),
                                         depth + 1)
                   ELSE <<>>
    IN  (IF Get(child, "kind", "") = "t1" THEN own \o below ELSE <<>>)
        \o extract_comments(Tail(children), depth)

(* get_post_comments(permalink): the try block and its except.             *)
get_post_comments(w, permalink) ==
  LET response == reddit_comments_response(w, permalink)
  IN  IF "error" \in DOMAIN response THEN <<>>
      ELSE IF response.json.kind # "list" THEN <<>>
      ELSE IF Len(response.json.value) > 1
        THEN extract_comments(Get(Get(response.json.value[2], "data", <<>>), "children", <<>>), 0)
        ELSE <<>>

(* What a loop of scan_reddit has done so far: the records it yielded and  *)
(* the exception that leaves the generator ("" for none).                  *)
Yielded(records, error) == [records |-> records, error |-> error]

RECURSIVE reddit_comment_loop(_, _, _, _, _)
(* scan_reddit, the for loop over comments from comments[k] on.            *)
reddit_comment_loop(comments, k, subreddit, title, permalink) ==
  IF k > Len(comments) THEN Yielded(<<>>, "")
  ELSE
    LET comment == comments[k]
        body == Get(comment, "body", <<>>)
        signal == reddit_contains_pain_signal(body)
    IN  IF signal.raised THEN Yielded(<<>>, signal.error)
        ELSE
          LET own == yield_if(signal.value[1] /\ Get(comment, "score", 0) >= MIN_COMMENT_SCORE,
                        [source |-> "reddit",
                         subreddit |-> subreddit,
                         title |-> <<"C","o","m","m","e","n","t"," ","o","n",":"," ">> \o Prefix(title, TITLE_CAP),
                         text |-> Prefix(body, TEXT_CAP),
                         url |-> <<"https://reddit.com", permalink>>,
                         score |-> Get(comment, "score", 0),
                         pain_signals |-> signal.value[2],
                         industries |-> reddit_identify_industry(body).value,
                         type |-> "comment"])
              rest == reddit_comment_loop(comments, k + 1, subreddit, title, permalink)
          IN  Yielded(own \o rest.records, rest.error)

RECURSIVE reddit_post_loop(_, _, _, _)
(* scan_reddit, the for loop over posts from posts[k] on.  post.get(...)   *)
(* raises AttributeError when the child is not a dict.                     *)
reddit_post_loop(w, posts, k, subreddit) ==
  IF k > Len(posts) THEN Yielded(<<>>, "")
  ELSE IF posts[k].kind # "dict" THEN Yielded(<<>>, "AttributeError")
  ELSE
    LET data == Get(posts[k].value, "data", <<>>)
        title == Get(data, "title", <<>>)
        selftext == Get(data, "selftext", <<>>)
        permalink == Get(data, "permalink", "")
        full_text == Format(title) \o <<" ">> \o Format(selftext)
        signal == reddit_contains_pain_signal(full_text)
        own == yield_if(signal.value[1],
                 [source |-> "reddit",
                  subreddit |-> subreddit,
                  title |-> title,
                  text |-> Truncated(selftext, TEXT_CAP),
                  url |-> <<"https://reddit.com", permalink>>,
                  score |-> Get(data, "score", 0),
                  num_comments |-> Get(data, "num_comments", 0),
                  pain_signals |-> signal.value[2],
                  industries |-> reddit_identify_industry(full_text).value,
                  type |-> "post"])
        below == IF Get(data, "num_comments", 0) > COMMENTS_OVER
                   THEN reddit_comment_loop(get_post_comments(w, permalink), 1,
                                            subreddit, title, permalink)
                   ELSE Yielded(<<>>, "")
    IN  IF below.error # "" THEN Yielded(own \o below.records, below.error)
        ELSE LET rest == reddit_post_loop(w, posts, k + 1, subreddit)
             IN  Yielded(own \o below.records \o rest.records, rest.error)

(* The worlds of the extractor: every way the first listing can fail, with *)
(* a healthy listing every combination of the post's text, the way the     *)
(* comment fetch goes, and the body and score of comment 1, and the long   *)
(* texts.                                                                  *)
RedditWorld(listing, post, comments, body, score) ==
  [listing |-> listing, post |-> post, comments |-> comments, body |-> body, score |-> score]

RedditWorlds ==
  { RedditWorld(l, "pain", "none", "pain", MIN_COMMENT_SCORE) :
      l \in {"list", "child"} \cup FetchErrors }
  \cup { RedditWorld("none", p, c, b, s) :
           p \in {"none", "pain"},
           c \in {"none", "short"} \cup FetchErrors,
           b \in {"pain", "plain", "None"},
           s \in {MIN_COMMENT_SCORE - 1, MIN_COMMENT_SCORE} }
  \cup { RedditWorld("none", "long", "none", "long", MIN_COMMENT_SCORE) }

InitRedditIdle ==
  /\ reddit_world = RedditWorld("none", "none", "none", "plain", MIN_COMMENT_SCORE)
  /\ reddit_pc = "idle"
  /\ subreddit_index = 0
  /\ reddit_yielded = <<>>
  /\ reddit_error = ""

InitReddit ==
  /\ reddit_world \in RedditWorlds
  /\ reddit_pc = "loop"
  /\ subreddit_index = 0
  /\ reddit_yielded = <<>>
  /\ reddit_error = ""

(* scan_reddit, one iteration of the for loop over SUBREDDITS.             *)
RedditScanSubreddit ==
  /\ reddit_pc = "loop"
  /\ subreddit_index < Len(SUBREDDITS)
  /\ \E i \in {subreddit_index + 1} :
     \E out \in {reddit_post_loop(reddit_world, get_subreddit_posts(reddit_world, i), 1,
                                  SUBREDDITS[i])} :
         /\ reddit_yielded' = reddit_yielded \o out.records
         /\ reddit_error' = out.error
         /\ reddit_pc' = IF out.error # "" THEN "raised" ELSE "loop"
         /\ subreddit_index' = IF out.error # "" THEN subreddit_index ELSE i
  /\ UNCHANGED reddit_world
  /\ UNCHANGED <<matchVars, scoreVars, intentVars, scanVars, hnVars, agentVars, cliVars>>

(* scan_reddit: the for loop is over, the generator is exhausted.          *)
RedditScanEnd ==
  /\ reddit_pc = "loop"
  /\ subreddit_index = Len(SUBREDDITS)
  /\ reddit_pc' = "done"
  /\ UNCHANGED <<reddit_world, subreddit_index, reddit_yielded, reddit_error>>
  /\ UNCHANGED <<matchVars, scoreVars, intentVars, scanVars, hnVars, agentVars, cliVars>>

NextReddit ==
  \/ RedditScanSubreddit
  \/ RedditScanEnd


(***************************************************************************)
(* agent/saas_agent.py: the agent endpoint                                 *)
(***************************************************************************)

RECURSIVE run_scan_loop(_, _, _, _, _)
(* run_scan, the for loop from the k-th record of the generator on: the    *)
(* list opportunities when the loop is left.                               *)
run_scan_loop(records, k, f, lim, collected) ==
  IF k > Len(records) THEN collected
  ELSE LET scored == ("priority_score" :> score_opportunity(records[k])) @@ records[k]
       IN  IF filter_drops(f, scored) THEN run_scan_loop(records, k + 1, f, lim, collected)
           ELSE IF Len(collected) + 1 >= lim * OVERFETCH THEN Append(collected, scored)
           ELSE run_scan_loop(records, k + 1, f, lim, Append(collected, scored))

(* run_scan(industry_filter, limit) when scan_hacker_news() yields records *)
run_scan(records, f, lim) ==
  Prefix(sort_by_priority(run_scan_loop(records, 1, f, lim, <<>>)), lim)

(* call_llm(...): the text it returns, or the exception that leaves it.    *)
(* call_llm(prompt), by what the POST to the completions API comes to: a   *)
(* 200 with the expected body ("ok"), another status, a timeout (a         *)
(* connection error raises in the same place), a 200 whose body has no     *)
(* "choices" (a body that is not JSON raises one line earlier).  Nothing   *)
(* in call_llm catches what client.post, response.json() or the subscripts *)
(* raise.                                                                  *)
call_llm(key, outcome) ==
  IF ~key THEN Return(<<"E","r","r","o","r",":"," ","O","P","E","N","A","I","_","A","P","I","_","K","E","Y"," ","n","o","t"," ","c","o","n","f","i","g","u","r","e","d","."," ","P","l","e","a","s","e"," ","s","e","t"," ","y","o","u","r"," ","A","P","I"," ","k","e","y",".">>)
  ELSE CASE outcome = "timeout"    -> Raise("ReadTimeout")
         [] outcome = "status"     -> Return(<<"L","L","M"," ","E","r","r","o","r",":"," ">> \o <<"R","a","t","e"," ","l","i","m","i","t"," ","r","e","a","c","h","e","d">>)
         [] outcome = "no_choices" -> Raise("KeyError")
         [] outcome = "ok"         -> Return(<<"#","#"," ","T","o","p"," ","i","d","e","a","s">>)

(* scan_cache[session_id] = opportunities, with the list appended to the   *)
(* one already cached instead.                                             *)
cache_store_appending(cache, session_id, result) ==
  (session_id :> (IF session_id \in DOMAIN cache THEN cache[session_id] ELSE <<>>) \o result) @@ cache

(* scan_cache[session_id] = opportunities *)
cache_store(cache, session_id, result) == (session_id :> result) @@ cache

(* The requests: MaxRequests of them, each on one of two sessions, with a  *)
(* query that scans, analyzes, asks for help or lists the signals.         *)
MaxRequests == 2

(* What scan_hacker_news() yields while a request's run_scan consumes it:  *)
(* nothing, or a story and then a comment that both have industries.       *)
AgentFeeds ==
  { f \in FeedInputs :
      \/ Len(f) = 0
      \/ /\ Len(f) = 2
         /\ f[1].type = "story" /\ f[1].industries # <<>>
         /\ f[2].type = "comment" /\ f[2].industries # <<>> }

InitAgent ==
  /\ requests \in [1..MaxRequests ->
        [session_id : {"s1", "s2"},
         query : { <<"s","c","a","n"," ","1"," ","f","i","n","a","n","c","e">>, <<"a","n","a","l","y","z","e">>, <<"h","e","l","p">>, <<"l","i","s","t"," ","s","i","g","n","a","l","s">> }]]
  /\ requests[1].session_id = "s1"
  /\ req_pc = [r \in 1..MaxRequests |-> "received"]
  /\ req_intent = [r \in 1..MaxRequests |-> NotRun]
  /\ req_scan = [r \in 1..MaxRequests |-> NotRun]
  /\ completed = <<>>
  /\ scan_cache = <<>>
  /\ responses = [r \in 1..MaxRequests |-> NotRun]
  /\ api_key \in BOOLEAN

(* How the endpoint answers: AgentResponse(success=...), whether call_llm  *)
(* was called and what its POST came to, and the text call_llm returned.   *)
Answer(success, llm, analysis) == [success |-> success, llm |-> llm, analysis |-> analysis]

(* saas_opportunity_agent and process_query up to the await of run_scan:   *)
(* the intent is parsed; explain and the two lists are answered at once;   *)
(* an exception of parse_user_intent is caught by the endpoint.            *)
AgentParse(r) ==
  /\ req_pc[r] = "received"
  /\ \E parsed \in {parse_user_intent(requests[r].query)} :
       /\ req_intent' = [req_intent EXCEPT ![r] = parsed]
       /\ IF parsed.raised
            THEN /\ responses' = [responses EXCEPT ![r] = Answer(FALSE, "none", <<>>)]
                 /\ req_pc' = [req_pc EXCEPT ![r] = "done"]
            ELSE IF parsed.value.action \in {"explain", "list_industries", "list_signals"}
            THEN /\ responses' = [responses EXCEPT ![r] = Answer(TRUE, "none", <<>>)]
                 /\ req_pc' = [req_pc EXCEPT ![r] = "done"]
            ELSE /\ responses' = responses
                 /\ req_pc' = [req_pc EXCEPT ![r] = "scanning"]
  /\ UNCHANGED <<requests, req_scan, completed, scan_cache, api_key>>
  /\ UNCHANGED <<matchVars, scoreVars, intentVars, scanVars, hnVars, redditVars, cliVars>>

(* The worker thread of to_thread.run_sync: run_scan returns, or the       *)
(* extractor raises in it.  Each record of the list is a dict of this call *)
(* and no other: it carries the request in `scan`.                         *)
AgentScanReturn(r) ==
  /\ req_pc[r] = "scanning"
  /\ \/ \E records \in AgentFeeds :
          \E result \in {run_scan(records, req_intent[r].value.industry_filter,
                                  req_intent[r].value.limit)} :
            /\ req_scan' = [req_scan EXCEPT ![r] =
                 Return([k \in 1..Len(result) |-> ("scan" :> r) @@ result[k]])]
            /\ completed' = Append(completed, r)
     \/ /\ req_scan' = [req_scan EXCEPT ![r] = Raise("AttributeError")]
        /\ completed' = completed
  /\ req_pc' = [req_pc EXCEPT ![r] = "returned"]
  /\ UNCHANGED <<requests, req_intent, scan_cache, responses, api_key>>
  /\ UNCHANGED <<matchVars, scoreVars, intentVars, scanVars, hnVars, redditVars, cliVars>>

(* process_query resumed on the event loop after the await: the result is  *)
(* stored in scan_cache; a scan request is answered; an analyze request is *)
(* answered when there is nothing to analyze or no API key, and otherwise  *)
(* awaits the POST of call_llm.  An exception of run_scan is caught by the *)
(* endpoint.                                                               *)
AgentResume(r) ==
  /\ req_pc[r] = "returned"
  /\ IF req_scan[r].raised
       THEN /\ responses' = [responses EXCEPT ![r] = Answer(FALSE, "none", <<>>)]
            /\ req_pc' = [req_pc EXCEPT ![r] = "done"]
            /\ scan_cache' = scan_cache
       ELSE /\ scan_cache' = cache_store(scan_cache, requests[r].session_id, req_scan[r].value)
            /\ IF req_intent[r].value.action = "analyze" /\ req_scan[r].value # <<>>
                 THEN IF api_key
                        THEN /\ responses' = responses
                             /\ req_pc' = [req_pc EXCEPT ![r] = "llm"]
                        ELSE /\ responses' = [responses EXCEPT ![r] =
                                  Answer(TRUE, "no_key", call_llm(api_key, "ok").value)]
                             /\ req_pc' = [req_pc EXCEPT ![r] = "done"]
                 ELSE /\ responses' = [responses EXCEPT ![r] = Answer(TRUE, "none", <<>>)]
                      /\ req_pc' = [req_pc EXCEPT ![r] = "done"]
  /\ UNCHANGED <<requests, req_intent, req_scan, completed, api_key>>
  /\ UNCHANGED <<matchVars, scoreVars, intentVars, scanVars, hnVars, redditVars, cliVars>>

(* call_llm after the await of client.post, and the endpoint's answer: an  *)
(* exception of call_llm leaves process_query and is caught by the         *)
(* endpoint's except, which answers success=False.                         *)
AgentLlmReturn(r) ==
  /\ req_pc[r] = "llm"
  /\ \E outcome \in {"ok", "status", "timeout", "no_choices"} :
       \E analysis \in {call_llm(api_key, outcome)} :
         responses' = [responses EXCEPT ![r] =
           IF analysis.raised THEN Answer(FALSE, outcome, <<>>)
           ELSE Answer(TRUE, outcome, analysis.value)]
  /\ req_pc' = [req_pc EXCEPT ![r] = "done"]
  /\ UNCHANGED <<requests, req_intent, req_scan, completed, scan_cache, api_key>>
  /\ UNCHANGED <<matchVars, scoreVars, intentVars, scanVars, hnVars, redditVars, cliVars>>

NextAgent ==
  \E r \in 1..MaxRequests :
    \/ AgentParse(r)
    \/ AgentScanReturn(r)
    \/ AgentResume(r)
    \/ AgentLlmReturn(r)


(***************************************************************************)
(* Command line: main.py main and save_results                             *)
(***************************************************************************)

(* save_results(opportunities): what becomes of the two files, and the     *)
(* exception that leaves the function ("" for none).  A file is <<>> while *)
(* it does not exist and <<content>> once it is written.  The CSV file is  *)
(* its header and one row per record, a row being the cells in the order   *)
(* of fieldnames, "" for a key the row lacks; csv.DictWriter is built with *)
(* the default extrasaction="raise", so writerow raises ValueError for a   *)
(* row with a key outside fieldnames, before it writes anything of it.     *)
(* The with block closes the file with the rows written so far, and the    *)
(* JSON file is opened only after it.                                      *)
save_results(opps) ==
  LET fieldnames == <<"priority_score", "source", "title", "text", "url",
                      "score", "pain_signals", "industries", "type">>
      join(s) == Concat([k \in 1..(2 * Len(s) - 1) |->
                           IF k % 2 = 1 THEN s[(k + 1) \div 2] ELSE <<",", " ">>])
      row(o) == ("pain_signals" :> join(Get(o, "pain_signals", <<>>)))
                  @@ ("industries" :> join(Get(o, "industries", <<>>))) @@ o
      cells(o) == [c \in 1..Len(fieldnames) |-> Get(row(o), fieldnames[c], <<>>)]
      extra == { k \in 1..Len(opps) : ~(DOMAIN row(opps[k]) \subseteq Range(fieldnames)) }
      written == IF extra = {} THEN Len(opps)
                 ELSE (CHOOSE k \in extra : \A j \in extra : k <= j) - 1
      lines == IF opps = <<>> THEN <<>>
               ELSE <<fieldnames>> \o [k \in 1..written |-> cells(opps[k])]
  IN  IF extra # {}
        THEN [csv |-> <<lines>>, json |-> <<>>, error |-> "ValueError"]
        ELSE [csv |-> <<lines>>, json |-> <<opps>>, error |-> ""]

(* main, the for statement asking the extractor in progress for its next   *)
(* record: the generator runs on from where it was suspended, which it     *)
(* does only once main has taken every record it has yielded.              *)
CliNext ==
  /\ Len(all_opportunities) = Len(reddit_yielded) + Len(hn_yielded)
  /\ \/ cli_pc = "reddit" /\ NextReddit
     \/ cli_pc = "hackernews" /\ NextHn

(* main, the body of either for loop: the record is scored, appended and   *)
(* announced.                                                              *)
CliCollect ==
  /\ cli_pc \in {"reddit", "hackernews"}
  /\ Len(all_opportunities) < Len(reddit_yielded) + Len(hn_yielded)
  /\ \E rec \in {(reddit_yielded \o hn_yielded)[Len(all_opportunities) + 1]} :
       /\ all_opportunities' =
            Append(all_opportunities, ("priority_score" :> cli_score_opportunity(rec)) @@ rec)
       /\ printed' = Append(printed, [line |-> "Found", rows |-> <<Prefix(rec.title, 50)>>])
  /\ UNCHANGED <<cli_pc, csv_file, json_file, cli_error>>
  /\ UNCHANGED <<matchVars, scoreVars, intentVars, scanVars, hnVars, redditVars, agentVars>>

(* main, the end of either for loop: the extractor is exhausted, or it has *)
(* raised and `except Exception` prints the error.  After the Reddit loop  *)
(* scan_hacker_news() is called; after the Hacker News loop comes the      *)
(* test of all_opportunities.                                              *)
CliScanOver ==
  /\ Len(all_opportunities) = Len(reddit_yielded) + Len(hn_yielded)
  /\ \/ /\ cli_pc = "reddit"
        /\ reddit_pc \in {"done", "raised"}
        /\ printed' = IF reddit_pc = "raised"
                        THEN Append(printed, [line |-> "Reddit error", rows |-> <<>>])
                        ELSE printed
        /\ cli_pc' = "hackernews"
        /\ hn_pc' = "start"
        /\ UNCHANGED <<hn_world, story_ids, hn_fetched, hn_returned, hn_yielded, hn_error>>
     \/ /\ cli_pc = "hackernews"
        /\ hn_pc \in {"done", "raised"}
        /\ printed' = IF hn_pc = "raised"
                        THEN Append(printed, [line |-> "HN error", rows |-> <<>>])
                        ELSE printed
        /\ cli_pc' = "save"
        /\ UNCHANGED hnVars
  /\ UNCHANGED <<all_opportunities, csv_file, json_file, cli_error>>
  /\ UNCHANGED <<matchVars, scoreVars, intentVars, scanVars, redditVars, agentVars>>

(* main, `if all_opportunities:` and the call of save_results, which is in *)
(* no try block: what it raises ends the process.                          *)
CliSave ==
  /\ cli_pc = "save"
  /\ IF all_opportunities = <<>>
       THEN /\ printed' = Append(printed, [line |-> "No opportunities found", rows |-> <<>>])
            /\ cli_pc' = "exit"
            /\ UNCHANGED <<csv_file, json_file, cli_error>>
       ELSE \E out \in {save_results(all_opportunities)} :
              /\ csv_file' = out.csv
              /\ json_file' = out.json
              /\ cli_error' = out.error
              /\ cli_pc' = IF out.error = "" THEN "summary" ELSE "crashed"
              /\ printed' = IF out.error = ""
                              THEN Append(printed, [line |-> "Saved", rows |-> <<>>])
                              ELSE printed
  /\ UNCHANGED all_opportunities
  /\ UNCHANGED <<matchVars, scoreVars, intentVars, scanVars, hnVars, redditVars, agentVars>>

(* main, print_summary(all_opportunities): the first 20 records of the     *)
(* list sorted by priority_score, then the number of records of each       *)
(* industry (the order of the lines of the breakdown is left out).         *)
CliSummary ==
  /\ cli_pc = "summary"
  /\ printed' = printed \o
       << [line |-> "TOP SAAS OPPORTUNITIES",
           rows |-> Prefix(sort_by_priority(all_opportunities), 20)],
          [line |-> "INDUSTRY BREAKDOWN",
           rows |-> LET named == { <<k, j>> \in (1..Len(all_opportunities)) \X (1..MaxIndustries) :
                                     j <= Len(all_opportunities[k].industries) }
                        names == { all_opportunities[p[1]].industries[p[2]] : p \in named }
                    IN  [ind \in names |->
                           Cardinality({ p \in named :
                                           all_opportunities[p[1]].industries[p[2]] = ind })]] >>
  /\ cli_pc' = "exit"
  /\ UNCHANGED <<all_opportunities, csv_file, json_file, cli_error>>
  /\ UNCHANGED <<matchVars, scoreVars, intentVars, scanVars, hnVars, redditVars, agentVars>>

NextCli ==
  \/ CliNext
  \/ CliCollect
  \/ CliScanOver
  \/ CliSave
  \/ CliSummary


(***************************************************************************)
(* Specifications                                                          *)
(***************************************************************************)

InitAgentIdle ==
  /\ requests = <<>>
  /\ req_pc = <<>>
  /\ req_intent = <<>>
  /\ req_scan = <<>>
  /\ completed = <<>>
  /\ scan_cache = <<>>
  /\ responses = <<>>
  /\ api_key = FALSE

InitCliIdle ==
  /\ cli_pc = "idle"
  /\ all_opportunities = <<>>
  /\ csv_file = <<>>
  /\ json_file = <<>>
  /\ printed = <<>>
  /\ cli_error = ""

(* The keyword matcher applied to one text.                                *)
StartMatch == InitMatch /\ InitScoreIdle /\ InitIntentIdle /\ InitScanIdle
                /\ InitHnIdle /\ InitRedditIdle /\ InitAgentIdle /\ InitCliIdle
SpecMatch == StartMatch /\ [][NextMatch]_vars

(* The two scorers applied to one record.                                  *)
StartScore == InitMatchIdle /\ InitScore /\ InitIntentIdle /\ InitScanIdle
                /\ InitHnIdle /\ InitRedditIdle /\ InitAgentIdle /\ InitCliIdle
SpecScore == StartScore /\ [][NextScore]_vars

(* The intent parser applied to one query.                                 *)
StartIntent == InitMatchIdle /\ InitScoreIdle /\ InitIntent /\ InitScanIdle
                /\ InitHnIdle /\ InitRedditIdle /\ InitAgentIdle /\ InitCliIdle
SpecIntent == StartIntent /\ [][NextIntent]_vars

(* One call of run_scan.                                                   *)
StartScan == InitMatchIdle /\ InitScoreIdle /\ InitIntentIdle /\ InitScan
                /\ InitHnIdle /\ InitRedditIdle /\ InitAgentIdle /\ InitCliIdle
SpecScan == StartScan /\ [][NextScan]_vars

(* One run of an extractor to its end: scan_hacker_news() or scan_reddit() *)
(* consumed by a caller that takes every record.                           *)
StartExtract ==
  /\ InitMatchIdle /\ InitScoreIdle /\ InitIntentIdle /\ InitScanIdle
  /\ InitAgentIdle /\ InitCliIdle
  /\ \/ InitHn /\ InitRedditIdle
     \/ InitHnIdle /\ InitReddit
SpecExtract == StartExtract /\ [][NextHn \/ NextReddit]_vars

(* Requests handled by the agent endpoint, overlapping in any way.         *)
StartAgent ==
  /\ InitMatchIdle /\ InitScoreIdle /\ InitIntentIdle /\ InitScanIdle
  /\ InitHnIdle /\ InitRedditIdle /\ InitAgent /\ InitCliIdle
SpecAgent == StartAgent /\ [][NextAgent]_vars

(* One run of main: the Reddit extractor in a world where its first        *)
(* listing fails or raises, or is healthy with or without signals in the   *)
(* post and its comments; the Hacker News extractor not yet called, in a   *)
(* world where item 1 is malformed or where a choice of the items carries  *)
(* a signal.                                                               *)
StartCli ==
  /\ InitMatchIdle /\ InitScoreIdle /\ InitIntentIdle /\ InitScanIdle /\ InitAgentIdle
  /\ InitReddit
  /\ \/ reddit_world.listing \in {"list", "child", "Timeout"}
     \/ /\ reddit_world.listing = "none" /\ reddit_world.comments = "none"
        /\ reddit_world.score = MIN_COMMENT_SCORE
        /\ <<reddit_world.post, reddit_world.body>> \in
             {<<"pain", "pain">>, <<"none", "plain">>, <<"none", "None">>}
  /\ hn_world \in { w \in HnWorlds :
                      \/ w.ask = "HTTPError" /\ w.pain \in {{}, {1}, {11}, {1111}, {1, 2, 11, 1111}}
                      \/ w.fault_node = 1 /\ w.fault = "list" /\ w.pain = {} }
  /\ hn_pc = "idle"
  /\ story_ids = {}
  /\ hn_fetched = <<>>
  /\ hn_returned = <<>>
  /\ hn_yielded = <<>>
  /\ hn_error = ""
  /\ cli_pc = "reddit"
  /\ all_opportunities = <<>>
  /\ csv_file = <<>>
  /\ json_file = <<>>
  /\ printed = << [line |-> "SAAS OPPORTUNITY BOT", rows |-> <<>>] >>
  /\ cli_error = ""
SpecCli == StartCli /\ [][NextCli]_vars

(* The program doing any one of these.                                     *)
Init == StartMatch \/ StartScore \/ StartIntent \/ StartScan \/ StartExtract \/ StartAgent
          \/ StartCli
Next == NextMatch \/ NextScore \/ NextIntent \/ NextScan \/ NextHn \/ NextReddit \/ NextAgent
          \/ NextCli
Spec == Init /\ [][Next]_vars


(***************************************************************************)
(* Properties of run_scan                                                  *)
(***************************************************************************)

Score(r) == r["priority_score"]

(* C1: the list run_scan returns is in non-increasing order of             *)
(* priority_score, and two returned records of equal priority_score are in *)
(* the order in which the generator yielded them.                          *)
C1_RankedStable ==
  scan_pc = "done" =>
    \A i, j \in 1..Len(scan_result) :
      i < j => /\ Score(scan_result[i]) >= Score(scan_result[j])
               /\ (Score(scan_result[i]) = Score(scan_result[j])
                     => scan_result[i].id < scan_result[j].id)

(* C1 witness: run_scan returned two records of equal score, and the sort  *)
(* moved them ahead of a record that was yielded first.                    *)
C1_Witness ==
  /\ scan_pc = "done"
  /\ Len(scan_result) = 2
  /\ Score(scan_result[1]) = Score(scan_result[2])
  /\ scan_result[1].id > 1
  /\ ~filter_drops(industry_filter, feed[1])

(* a and b are equal when letter case is ignored.                          *)
EqualIgnoreCase(a, b) ==
  /\ Len(a) = Len(b)
  /\ \A k \in 1..Len(a) : LowerChar(a[k]) = LowerChar(b[k])

HasIndustry(r, f) ==
  \E k \in 1..Len(r.industries) : EqualIgnoreCase(r.industries[k], f)

C3_Claim ==
  [][ /\ Len(opportunities') <= OVERFETCH * limit'
      /\ (Len(opportunities) >= OVERFETCH * limit => pulled' = pulled)
      /\ (scan_pc' = "done" => Len(scan_result') <= limit') ]_vars

(* C3, what holds of the code: the same for every limit of at least 1.     *)
C3_PositiveLimit ==
  [][ limit >= 1 =>
       /\ Len(opportunities') <= OVERFETCH * limit'
       /\ (Len(opportunities) >= OVERFETCH * limit => pulled' = pulled)
       /\ (scan_pc' = "done" => Len(scan_result') <= limit') ]_vars

(* A scan with limit 1 that broke off with records left in the generator.  *)
C3_PositiveLimitWitness ==
  /\ scan_pc = "done"
  /\ limit = 1
  /\ Len(opportunities) = OVERFETCH * limit
  /\ pulled < Len(feed)

(***************************************************************************)
(* Properties of the scorer                                                *)
(***************************************************************************)

EngagementBucket(s) ==
  CASE s > 100 -> 20
    [] s > 50 /\ s <= 100 -> 10
    [] s > 10 /\ s <= 50 -> 5
    [] OTHER -> 0

CommentBucket(c) ==
  CASE c > 50 -> 15
    [] c > 20 /\ c <= 50 -> 10
    [] c > 5 /\ c <= 20 -> 5
    [] OTHER -> 0

ScoreFormula(o) ==
  10 * Len(o.pain_signals) + 5 * Len(o.industries)
    + EngagementBucket(IF "score" \in DOMAIN o THEN o["score"] ELSE 0)
    + CommentBucket(IF "num_comments" \in DOMAIN o THEN o["num_comments"] ELSE 0)

(* C4: both copies of score_opportunity return 10 per signal, 5 per        *)
(* industry, the engagement bucket of score and the comment bucket of      *)
(* num_comments, a missing number counting as 0; they agree on every       *)
(* record; the documented example scores 60.                               *)
C4_ScoreFormula ==
  /\ cli_score # NotRun => cli_score = Return(ScoreFormula(opp))
  /\ agent_score # NotRun => agent_score = Return(ScoreFormula(opp))
  /\ (cli_score # NotRun /\ agent_score # NotRun) => cli_score = agent_score
  /\ (opp = ExampleOpp /\ agent_score # NotRun) => agent_score = Return(60)

(* C4 witness: both copies have scored a comment record (no num_comments)  *)
(* whose score is on a threshold.                                          *)
C4_Witness ==
  /\ cli_score # NotRun /\ agent_score # NotRun
  /\ "num_comments" \notin DOMAIN opp
  /\ "score" \in DOMAIN opp /\ opp["score"] = 100
  /\ agent_score.value = 10 * Len(opp.pain_signals) + 5 * Len(opp.industries) + 10

(***************************************************************************)
(* Properties of the keyword matcher                                       *)
(***************************************************************************)

(* word occurs in t as a substring when letter case is ignored.            *)
OccursIgnoreCase(word, t) ==
  \E i \in 0..(Len(t) - Len(word)) :
    \A j \in 1..Len(word) : LowerChar(t[i + j]) = LowerChar(word[j])

Count(s, x) == Cardinality({ p \in 1..Len(s) : s[p] = x })

(* found holds exactly the entries of configured (a list without           *)
(* duplicates) that satisfy Hit, each once, in the order of configured.    *)
ExactlyInOrder(found, configured, Hit(_)) ==
  /\ \A p \in 1..Len(found) : \E k \in 1..Len(configured) : found[p] = configured[k]
  /\ \A k \in 1..Len(configured) :
       Count(found, configured[k]) = IF Hit(k) THEN 1 ELSE 0
  /\ \A p, q \in 1..Len(found) :
       p < q => \E k, m \in 1..Len(configured) :
                  k < m /\ found[p] = configured[k] /\ found[q] = configured[m]

SignalOutcomeOk(res, t) ==
  \/ res = NotRun
  \/ /\ ~res.raised
     /\ res.value[1] <=> (Len(res.value[2]) > 0)
     /\ ExactlyInOrder(res.value[2], PAIN_SIGNALS,
                       LAMBDA k : OccursIgnoreCase(PAIN_SIGNALS[k], t))

(* C5: for every text, contains_pain_signal (of either scraper) returns    *)
(* True exactly when its list is not empty, and the list holds exactly the *)
(* configured signals that occur in the text, letter case ignored, each    *)
(* once and in the configured order.                                       *)
C5_SignalsExact ==
  text # None => /\ SignalOutcomeOk(hn_signal, text)
                 /\ SignalOutcomeOk(reddit_signal, text)

(* C5 witness: both copies found two signals in a text that spells the     *)
(* first of them in another letter case.                                   *)
C5_Witness ==
  /\ text # None
  /\ hn_signal # NotRun /\ reddit_signal # NotRun
  /\ hn_signal.value[1]
  /\ Len(hn_signal.value[2]) = 2
  /\ reddit_signal = hn_signal
  /\ hn_signal.value[2][1] = PAIN_SIGNALS[1]
  /\ ~Contains(PAIN_SIGNALS[1], text)

KeywordHits(k, t) ==
  { w \in 1..Len(INDUSTRIES[k].keywords) : OccursIgnoreCase(INDUSTRIES[k].keywords[w], t) }

IndustryOutcomeOk(res, t) ==
  \/ res = NotRun
  \/ /\ ~res.raised
     /\ ExactlyInOrder(res.value, IndustryNames, LAMBDA k : KeywordHits(k, t) # {})

(* C6: for every text, identify_industry (of either scraper) returns each  *)
(* industry at most once, returns it exactly when one of its keywords      *)
(* occurs in the text, letter case ignored, and in declaration order.      *)
C6_IndustriesExact ==
  text # None => /\ IndustryOutcomeOk(hn_industry, text)
                 /\ IndustryOutcomeOk(reddit_industry, text)

(* C6 witness: two keywords of finance occur in the text, after a keyword  *)
(* of legal; both copies return finance once and before legal.             *)
C6_Witness ==
  /\ text # None
  /\ hn_industry # NotRun /\ reddit_industry # NotRun
  /\ Cardinality(KeywordHits(1, text)) >= 2
  /\ KeywordHits(2, text) # {}
  /\ hn_industry.value = SubSeq(IndustryNames, 1, 2)
  /\ reddit_industry = hn_industry
  /\ OccursIgnoreCase(INDUSTRIES[2].keywords[1], SubSeq(text, 1, 9))

(* C7, as claimed: on the empty string and on None both copies of          *)
(* contains_pain_signal return (False, []) and both copies of              *)
(* identify_industry return [], without raising.                           *)
C7_Claim ==
  (text = None \/ text = <<>>) =>
    /\ hn_signal \in {NotRun, Return(<<FALSE, <<>>>>)}
    /\ hn_industry \in {NotRun, Return(<<>>)}
    /\ reddit_signal \in {NotRun, Return(<<FALSE, <<>>>>)}
    /\ reddit_industry \in {NotRun, Return(<<>>)}

(* C7, what holds of the code: the claim for the empty string, and for     *)
(* None in hn_scraper only.                                                *)
C7_EmptyAndHnNone ==
  /\ text = <<>> => C7_Claim
  /\ text = None => /\ hn_signal \in {NotRun, Return(<<FALSE, <<>>>>)}
                    /\ hn_industry \in {NotRun, Return(<<>>)}

(***************************************************************************)
(* Properties of the intent parser                                         *)
(***************************************************************************)

(* The action of the first rule with a keyword in the query, letter case   *)
(* ignored; "scan" when no rule has one.                                   *)
RuleWords == <<ANALYZE_WORDS, EXPLAIN_WORDS, LIST_INDUSTRIES_WORDS, LIST_SIGNALS_WORDS>>
RuleActions == <<"analyze", "explain", "list_industries", "list_signals">>

RuleMatches(r, q) == \E k \in 1..Len(RuleWords[r]) : OccursIgnoreCase(RuleWords[r][k], q)

FirstRuleAction(q) ==
  IF \E r \in 1..4 : RuleMatches(r, q)
    THEN RuleActions[CHOOSE r \in 1..4 :
                       RuleMatches(r, q) /\ \A e \in 1..(r - 1) : ~RuleMatches(e, q)]
    ELSE "scan"

(* C8, as claimed: parse_user_intent gives every query the action of the   *)
(* first rule that matches it (scan when none does), and gives "list       *)
(* industries" the intent list_industries, None, 10.                       *)
C8_Claim ==
  intent # NotRun =>
    /\ ~intent.raised
    /\ intent.value.action = FirstRuleAction(query)
    /\ query = QueryListIndustries
         => intent.value = [action |-> "list_industries",
                            industry_filter |-> None, limit |-> 10]

(* C8, what holds of the code: the same whenever parse_user_intent returns.*)
C8_WhenReturned ==
  (intent # NotRun /\ ~intent.raised) =>
    /\ intent.value.action = FirstRuleAction(query)
    /\ query = QueryListIndustries
         => intent.value = [action |-> "list_industries",
                            industry_filter |-> None, limit |-> 10]

(* C9, as claimed: "find 5 fintech opportunities" parses to scan, finance, *)
(* 5.                                                                      *)
C9_Claim ==
  (query = QueryFindFintech /\ intent # NotRun) =>
    intent = Return([action |-> "scan", industry_filter |-> IndustryNames[1],
                     limit |-> 5])

(* C9, what holds of the code: the filter is None, since "finance" itself  *)
(* does not occur in the query.                                            *)
C9_FilterIsNone ==
  (query = QueryFindFintech /\ intent # NotRun) =>
    intent = Return([action |-> "scan", industry_filter |-> None, limit |-> 5])

(* The tokens of q: the maximal runs of characters other than whitespace,  *)
(* as pairs of first and last position.                                    *)
IsTokenChar(q, p) == p \in 1..Len(q) /\ q[p] \notin Whitespace
Tokens(q) ==
  { <<a, b>> \in (1..Len(q)) \X (1..Len(q)) :
      /\ a <= b
      /\ \A p \in a..b : IsTokenChar(q, p)
      /\ ~IsTokenChar(q, a - 1) /\ ~IsTokenChar(q, b + 1) }

NumericTokens(q) ==
  { t \in Tokens(q) : \A p \in t[1]..t[2] : IsDecimalChar(q[p]) }

(* min(n, 50) for the first token of decimal digits, 10 without one.       *)
ExpectedLimit(q) ==
  IF NumericTokens(q) = {} THEN 10
  ELSE LET first == CHOOSE t \in NumericTokens(q) :
                      \A u \in NumericTokens(q) : t[1] <= u[1]
           n == DecimalValue(SubSeq(q, first[1], first[2]), 0)
       IN  IF n < 50 THEN n ELSE 50

(* C10, as claimed: for every query parse_user_intent returns the limit    *)
(* min(n, 50), n the value of the first token of digits, and 10 when there *)
(* is no such token.                                                       *)
C10_Claim ==
  intent # NotRun => /\ ~intent.raised
                     /\ intent.value.limit = ExpectedLimit(query)

(* C10, what holds of the code: the same whenever parse_user_intent        *)
(* returns.                                                                *)
C10_WhenReturned ==
  (intent # NotRun /\ ~intent.raised) => intent.value.limit = ExpectedLimit(query)


(***************************************************************************)
(* Completeness of run_scan                                                *)
(***************************************************************************)

(* The record passes the industry filter, said without the code's loop:    *)
(* there is no filter, or the record has the industry.                     *)
Passes(r) == ~Truthy(industry_filter) \/ HasIndustry(r, industry_filter)

(* The positions of the feed whose record passes the filter.               *)
PassingIds == { i \in 1..Len(feed) : Passes(feed[i]) }

ReturnedIds == { scan_result[k].id : k \in 1..Len(scan_result) }

(* run_scan returned exactly the min(limit, n) passing records of highest  *)
(* priority_score, each once and as the scorer scored it.                  *)
ReturnsTopPassing ==
  /\ Len(scan_result) = Min(limit, Cardinality(PassingIds))
  /\ Cardinality(ReturnedIds) = Len(scan_result)
  /\ ReturnedIds \subseteq PassingIds
  /\ \A k \in 1..Len(scan_result) :
       scan_result[k] =
         ("priority_score" :> ScoreFormula(feed[scan_result[k].id])) @@ feed[scan_result[k].id]
  /\ \A i \in ReturnedIds : \A j \in PassingIds \ ReturnedIds :
       ScoreFormula(feed[i]) >= ScoreFormula(feed[j])

HasSignal(t) == \E k \in 1..Len(PAIN_SIGNALS) : OccursIgnoreCase(PAIN_SIGNALS[k], t)

(* The text of a field the API serves, "" when the item has no such field. *)
Field(item, name) == IF name \in DOMAIN item THEN item[name] ELSE <<>>

(* The text scan_hacker_news has to classify for the item a record's url   *)
(* names: title and text of a story, the text of a comment.                *)
HnClassified(r) ==
  LET item == hn_item_object(hn_world, r.url[2])
  IN  IF r.type = "story" THEN Field(item, "title") \o <<" ">> \o Field(item, "text")
      ELSE Field(item, "text")

(* The posts and the comment bodies the Reddit API serves.                 *)
RedditPostsServed == {RedditPostA(reddit_world).value.data, RedditPostB.value.data, RedditPostC.value.data}

RedditBodiesServed == {RedditBody(reddit_world), <<"w","a","s","t","e"," ","s","o"," ","m","u","c","h"," ","t","i","m","e"," ","o","n"," ","t","a","x">>} \ {None}

(* The record comes from a post or a comment whose classified text has a   *)
(* pain signal.                                                            *)
RedditOriginHasSignal(r) ==
  IF r.type = "post"
    THEN \E p \in RedditPostsServed :
           /\ p.permalink = r.url[2]
           /\ HasSignal(p.title \o <<" ">> \o p.selftext)
    ELSE \E b \in RedditBodiesServed :
           /\ r.text = SubSeq(b, 1, Min(Len(b), TEXT_CAP))
           /\ HasSignal(b)

(* C11: every record scan_hacker_news or scan_reddit has yielded has at    *)
(* least one entry in pain_signals and a text of at most 500 characters,   *)
(* and comes from an item, post or comment whose classified text matches a *)
(* pain signal: what matches no signal yields no record.                   *)
C11_RecordsHavePain ==
  /\ \A k \in 1..Len(hn_yielded) :
       /\ Len(hn_yielded[k].pain_signals) >= 1
       /\ Len(hn_yielded[k].text) <= TEXT_CAP
       /\ HasSignal(HnClassified(hn_yielded[k]))
  /\ \A k \in 1..Len(reddit_yielded) :
       /\ Len(reddit_yielded[k].pain_signals) >= 1
       /\ Len(reddit_yielded[k].text) <= TEXT_CAP
       /\ RedditOriginHasSignal(reddit_yielded[k])

(* C11 witness: scan_hacker_news ended; it yielded the record of story 1   *)
(* with its text cut to 500 characters, and it yielded no record for       *)
(* comment 13, which get_comments returned and which has no signal.        *)
C11_Witness ==
  /\ hn_pc = "done"
  /\ \E k \in 1..Len(hn_yielded) :
       /\ hn_yielded[k].type = "story"
       /\ hn_yielded[k].url[2] = 1
       /\ Len(hn_yielded[k].text) = TEXT_CAP
       /\ Len(hn_item_object(hn_world, 1).text) > TEXT_CAP
  /\ \E k \in 1..Len(hn_returned) : hn_returned[k] = 13
  /\ \A k \in 1..Len(hn_yielded) : hn_yielded[k].url[2] # 13

(* The item the API lists the id under, and how many levels the id is      *)
(* below its story.                                                        *)
HnItemIds == {1, 2, 3, 11, 12, 13, 111, 1111, 11111, 121, 21} \cup { 300 + k : k \in 1..MaxWide }

HnParent(id) == CHOOSE p \in HnItemIds : \E k \in 1..Len(HnKids(p)) : HnKids(p)[k] = id

RECURSIVE HnLevel(_)
HnLevel(id) == IF id \in HnStories THEN 0 ELSE 1 + HnLevel(HnParent(id))

(* The API serves the id as a comment that is not deleted.                 *)
HnLiveComment(id) ==
  LET response == hn_item_response(hn_world, id)
  IN  /\ "json" \in DOMAIN response
      /\ response.json.kind = "dict"
      /\ response.json.value.type = "comment"
      /\ "deleted" \notin DOMAIN response.json.value

HnFetchedComments == { hn_fetched[k] : k \in 1..Len(hn_fetched) } \ HnStories

(* The walk fetches only the first KIDS_CAP children of a parent, and no   *)
(* child of a comment that is deleted, failed to fetch or is no comment.   *)
HnWalkBounded ==
  \A id \in HnFetchedComments :
    /\ \E k \in 1..KIDS_CAP : k <= Len(HnKids(HnParent(id))) /\ HnKids(HnParent(id))[k] = id
    /\ HnParent(id) \notin HnStories => HnLiveComment(HnParent(id))

(* C15 as the claim states it: get_comments fetches at most the first 20   *)
(* children of a parent, never the children of a comment that is deleted,  *)
(* failed to fetch or is no comment, and returns no comment more than 2    *)
(* levels below the story.                                                 *)
C15_Claim ==
  /\ HnWalkBounded
  /\ \A k \in 1..Len(hn_returned) : HnLevel(hn_returned[k]) <= MAX_DEPTH

(* What holds instead of C15: the bounds on the fetches hold, and no       *)
(* returned comment is more than 3 levels below the story.                 *)
C15_ThreeLevels ==
  /\ HnWalkBounded
  /\ \A k \in 1..Len(hn_returned) : HnLevel(hn_returned[k]) <= MAX_DEPTH + 1

(* The walk reached its bounds: the 20th comment of story 3 was returned,  *)
(* the 21st exists, and comment 1111 of level 3 was returned.              *)
C15_BoundsReached ==
  /\ hn_pc = "done"
  /\ \E k \in 1..Len(hn_returned) : hn_returned[k] = 300 + KIDS_CAP
  /\ \E k \in 1..Len(hn_returned) : hn_returned[k] = 1111
  /\ MaxWide > KIDS_CAP

(* The only anomalies of the world are failures of a fetch: a timeout, a   *)
(* status that is not 2xx, a body that is not JSON or not of the expected  *)
(* JSON type.  (A Reddit comment whose body is null is no fetch failure.)  *)
OnlyFetchFailures == reddit_world.body # "None"

(* Every fetch of the scan that failed gave its caller the empty result.   *)
FailedFetchesEmpty ==
  /\ \A k \in 1..Len(hn_fetched) :
       "error" \in DOMAIN hn_item_response(hn_world, hn_fetched[k])
         => ~PyTruthy(get_item(hn_world, hn_fetched[k]))
  /\ hn_pc \notin {"idle", "start"} =>
       /\ hn_world.top # "none" => get_top_stories(hn_world) = <<>>
       /\ hn_world.new # "none" => get_new_stories(hn_world) = <<>>
       /\ hn_world.ask # "none" => get_ask_stories(hn_world) = <<>>
  /\ \A i \in 1..subreddit_index :
       "error" \in DOMAIN reddit_listing_response(reddit_world, i)
         => get_subreddit_posts(reddit_world, i) = <<>>
  /\ (subreddit_index >= 1 /\ reddit_world.listing \in {"list"} \cup FetchErrors)
       => get_subreddit_posts(reddit_world, 1) = <<>>

(* The scan went on after the failures: when it has ended, every listed    *)
(* story was fetched, and the post of the second subreddit was yielded.    *)
ScanWentOn ==
  /\ hn_pc = "done" =>
       \A id \in Range(get_top_stories(hn_world)) \cup Range(get_new_stories(hn_world))
                   \cup Range(get_ask_stories(hn_world)) :
         \E k \in 1..Len(hn_fetched) : hn_fetched[k] = id
  /\ reddit_pc = "done" =>
       \E k \in 1..Len(reddit_yielded) : reddit_yielded[k].subreddit = SUBREDDITS[2]

(* C12 as the claim states it: whatever fetch fails, by a timeout, a       *)
(* status that is not 2xx or a malformed body, the failed call gives the   *)
(* empty result, no exception leaves scan_hacker_news or scan_reddit, and  *)
(* the scan goes on to the remaining items, posts and subreddits.          *)
C12_Claim ==
  OnlyFetchFailures =>
    /\ FailedFetchesEmpty
    /\ hn_pc # "raised"
    /\ reddit_pc # "raised"
    /\ ScanWentOn

(* What holds instead of C12: it holds of every fetch that raises inside   *)
(* its try block, that is in the worlds where no item and no child of a    *)
(* listing is served as JSON of another type than an object.               *)
C12_RaisingFetchesRecovered ==
  (OnlyFetchFailures /\ hn_world.fault # "list" /\ reddit_world.listing # "child") =>
    /\ FailedFetchesEmpty
    /\ hn_pc # "raised"
    /\ reddit_pc # "raised"
    /\ ScanWentOn

(* Fetches failed and the scans ended all the same: the top listing timed  *)
(* out and scan_hacker_news ended with records; or the first subreddit's   *)
(* listing failed and scan_reddit ended.                                   *)
C12_RecoveredScan ==
  \/ /\ hn_pc = "done"
     /\ hn_world.top = "Timeout"
     /\ hn_yielded # <<>>
  \/ /\ reddit_pc = "done"
     /\ reddit_world.listing = "HTTPError"


(***************************************************************************)
(* Properties of the agent endpoint                                        *)
(***************************************************************************)

StartsWith(s, prefix) == Len(s) >= Len(prefix) /\ SubSeq(s, 1, Len(prefix)) = prefix

(* The request was answered after a call of call_llm that failed: there is *)
(* no API key, or the POST did not come to a 200 with the expected body.   *)
LlmFailed(r) == responses[r] # NotRun /\ responses[r].llm \notin {"none", "ok"}

InBand(r) ==
  /\ responses[r].success
  /\ \/ StartsWith(responses[r].analysis, <<"L","L","M"," ","E","r","r","o","r",":"," ">>)
     \/ StartsWith(responses[r].analysis, <<"E","r","r","o","r",":"," ">>)

(* C13 as the claim states it: whenever the LLM call of an analyze request *)
(* fails, call_llm returns a text that begins with "LLM Error: " or        *)
(* "Error: ", nothing is raised, and the endpoint answers success=true.    *)
C13_Claim == \A r \in DOMAIN responses : LlmFailed(r) => InBand(r)

(* What holds instead of C13: a missing API key and a status other than    *)
(* 200 are returned in band and answered with success=true; every other    *)
(* failure is answered with success=false.                                 *)
C13_KeyAndStatusInBand ==
  \A r \in DOMAIN responses :
    LlmFailed(r) => IF responses[r].llm \in {"no_key", "status"} THEN InBand(r)
                    ELSE ~responses[r].success

(* Both kinds of in-band failure were answered.                            *)
C13_InBandReached ==
  \E r \in DOMAIN responses :
    /\ LlmFailed(r)
    /\ responses[r].llm = "status"
    /\ InBand(r)

(* The requests of session s whose result process_query has stored.        *)
Stored(s) ==
  { r \in DOMAIN requests :
      /\ requests[r].session_id = s
      /\ req_pc[r] \in {"llm", "done"}
      /\ req_scan[r] # NotRun
      /\ ~req_scan[r].raised }

(* The requests of session s whose run_scan has returned, in that order.   *)
Finished(s) == SelectSeq(completed, LAMBDA r : requests[r].session_id = s)

(* No scan was started for a request that explain or a list answers.       *)
NoScanForLists ==
  \A r \in DOMAIN requests :
    (req_intent[r] # NotRun /\ ~req_intent[r].raised
       /\ req_intent[r].value.action \in {"explain", "list_industries", "list_signals"})
      => req_scan[r] = NotRun

SummaryPrinted ==
  { k \in 1..Len(printed) : printed[k].line \in {"TOP SAAS OPPORTUNITIES", "INDUSTRY BREAKDOWN"} }

(* main is past the call of save_results for a list that is not empty.     *)
PastSave == cli_pc \in {"summary", "exit", "crashed"} /\ all_opportunities # <<>>

(* The keys the extractors put in a record that are no column of the CSV   *)
(* file.                                                                   *)
HasExtraKey(o) == "subreddit" \in DOMAIN o \/ "num_comments" \in DOMAIN o

(* The Hacker News extractor is not called, and none of its records is     *)
(* collected, before the Reddit extractor has ended and main has taken     *)
(* every record of it.                                                     *)
RedditBeforeHn ==
  /\ hn_pc # "idle" => /\ reddit_pc \in {"done", "raised"}
                       /\ cli_pc # "reddit"
                       /\ Len(all_opportunities) >= Len(reddit_yielded)
  /\ \A k \in 1..Len(all_opportunities) :
       all_opportunities[k].source = "reddit" <=> k <= Len(reddit_yielded)

(* C14: in CLI mode, for any non-empty set of records the extractors       *)
(* yield, the Reddit scan runs to its end before the Hacker News scan      *)
(* starts, then save_results writes both the CSV file and the JSON file    *)
(* without error, and only after that are the ranked summary and the       *)
(* industry breakdown printed.                                             *)
C14_Claim ==
  /\ RedditBeforeHn
  /\ PastSave => csv_file # <<>> /\ json_file # <<>> /\ cli_error = ""
  /\ SummaryPrinted # {} => csv_file # <<>> /\ json_file # <<>>
  /\ (cli_pc = "exit" /\ all_opportunities # <<>>) => Cardinality(SummaryPrinted) = 2

(* What holds of main instead: the order of the two scans and of the       *)
(* summary after the files; and save_results writes both files exactly     *)
(* when no record has a key outside the columns, that is when every record *)
(* is a Hacker News comment; otherwise it raises ValueError at the first   *)
(* such record, the CSV file ends before that record, no JSON file is      *)
(* written and nothing is printed after.                                   *)
C14_SavedOnlyWithoutExtraKeys ==
  /\ RedditBeforeHn
  /\ SummaryPrinted # {} => csv_file # <<>> /\ json_file = <<all_opportunities>> /\ cli_error = ""
  /\ PastSave =>
       LET extra == { k \in 1..Len(all_opportunities) : HasExtraKey(all_opportunities[k]) }
       IN  /\ csv_file # <<>>
           /\ extra = {} => /\ cli_pc \in {"summary", "exit"}
                            /\ cli_error = ""
                            /\ json_file = <<all_opportunities>>
                            /\ Len(csv_file[1]) = 1 + Len(all_opportunities)
                            /\ \A k \in 1..Len(all_opportunities) :
                                 all_opportunities[k].type = "comment"
                                   /\ all_opportunities[k].source = "hackernews"
           /\ extra # {} => /\ cli_pc = "crashed"
                            /\ cli_error = "ValueError"
                            /\ json_file = <<>>
                            /\ SummaryPrinted = {}
                            /\ \A k \in extra : Len(csv_file[1]) <= k

(* A run that saved both files and printed the summary, and a run that     *)
(* collected records of both extractors and was ended by save_results.     *)
C14_SavedReached ==
  /\ cli_pc = "exit" /\ all_opportunities # <<>> /\ json_file # <<>>
  /\ Cardinality(SummaryPrinted) = 2

C14_CrashReached ==
  /\ cli_pc = "crashed"
  /\ \E k \in 1..Len(all_opportunities) : all_opportunities[k].source = "reddit"
  /\ \E k \in 1..Len(all_opportunities) : all_opportunities[k].source = "hackernews"
  /\ json_file = <<>>


====
